---- MODULE Spec2Model ----
(***************************************************************************)
(* Star Battle entanglement calculator: the exhaustive enumerator, the     *)
(* pattern analyzer, the D4 canonicalizer and the rule miners.             *)
(***************************************************************************)
EXTENDS Integers, Sequences, FiniteSets, TLC

\* ------------------------------------------------------------------------
\* Bounds of the model
\* ------------------------------------------------------------------------
MaxBoard == 5
MaxStars == 2
MaxPattern == 2
MaxCoord == 2
FarCoord == 10
MaxCanonStars == 2
MaxCanonCells == 1
MaxShift == 1
MineBoard == 4
MaxInitialStars == 2
MaxForcedEmpty == 1
MaxPatterns == 3
MaxMinOccurrences == 2
MaxSolutions == 3
MaxCpus == 2
MaxAnalyzeBoard == 6
MaxTotalPatterns == 2
ShardBlock == 51
MaxShardPool == 3
MaxItems == 8
TripleBoard == 4
MaxEntangledStars == 3

VARIABLES
  phase,        \* which stage of the run is executing
  boardSize,    \* ConfigurationEnumerator.boardSize
  starsPerRow,  \* ConfigurationEnumerator.starsPerRow
  grid,         \* the grid mutated in place by backtrack
  stack,        \* call stack of backtrack: frames [row, col, pc]
  solutions,    \* ConfigurationEnumerator.solutions
  includeInherent, \* PatternAnalyzer.includeInherent
  pattern,      \* argument of the last analyzePattern call
  compatibleSolutions, \* analyzePattern's local compatibleSolutions
  result,       \* value returned by the last analyzePattern call
  generated,    \* value returned by the last generatePatterns call
  pointsStars,  \* canonicalize / canonicalizeTriple argument: the stars
  pointsCells,  \* canonicalize argument: the accompanying cells
  image,        \* the symmetric occurrence presented next: [t, shift]
  canonOut,     \* canonicalize(pointsStars, pointsCells)
  canonAgain,   \* canonicalize of the canonical form fed back in
  canonImage,   \* canonicalize of the symmetric occurrence
  tripleOut,    \* canonicalizeTriple(pointsStars, candidate)
  tripleImage,  \* canonicalizeTriple of the symmetric occurrence
  starsOut,     \* canonicalizeStars(pointsStars)
  output,       \* the Output handed to the miners: board_size, patterns
  minOccurrences, \* the miners' minOccurrences argument
  pureEntanglements, \* extractPureEntanglements(output, minOccurrences)
  constrainedEntanglements, \* mineConstrainedEntanglements(output, minOccurrences)
  tripleEntanglements, \* mineTripleEntanglements(output, solutions, minOccurrences)
  tripleEntanglementsFinal, \* the coordinator's merged triple output
  pureEntanglementsMerged, \* the coordinator's merged pure templates
  constrainedEntanglementsMerged, \* the coordinator's merged constrained rules
  gridSize,     \* main's gridSize
  cpuCount,     \* main's numCpus = os.cpus().length
  totalPatterns, \* main's totalPatterns = patterns.length
  outputPatterns, \* output.patterns.length once the analysis stage is done
  stage,        \* the stage whose workers were created last
  workerStatus, \* per worker of that stage: what it did, what was delivered
  completedWorkers, \* the stage's counter of handled 'done' messages
  intervals,    \* the progress intervals that are still set
  exitCode,     \* the status the process exited with, None while it runs
  workerSlices, \* per worker: the indices its loop from startIdx to endIdx visits
  analysed,     \* the pattern indices for which analyzePattern returns a result
  pendingProgress, \* per worker: 'progress' messages posted and not yet handled
  workerProgress, \* main's workerProgress
  totalProcessed, \* main's totalProcessed
  workerResults, \* main's workerResults
  written       \* the pattern lists handed to writeOutput, in call order

enumVars == <<boardSize, starsPerRow, grid, stack, solutions>>
anaVars == <<includeInherent, pattern, compatibleSolutions, result, generated>>

canonVars == <<pointsStars, pointsCells, image, canonOut, canonAgain,
               canonImage, tripleOut, tripleImage, starsOut>>

mineVars == <<output, minOccurrences, pureEntanglements,
              constrainedEntanglements, tripleEntanglements,
              tripleEntanglementsFinal>>

stageVars == <<pureEntanglementsMerged, constrainedEntanglementsMerged>>

runVars == <<gridSize, cpuCount, totalPatterns, outputPatterns, stage,
             workerStatus, completedWorkers, intervals, exitCode>>

poolVars == <<workerSlices, analysed, pendingProgress, workerProgress,
              totalProcessed, workerResults, written>>

vars == <<poolVars, phase, boardSize, starsPerRow, grid, stack, solutions,
          includeInherent, pattern, compatibleSolutions, result, generated,
          pointsStars, pointsCells, image, canonOut, canonAgain,
          canonImage, tripleOut, tripleImage, starsOut,
          output, minOccurrences, pureEntanglements,
          constrainedEntanglements, tripleEntanglements,
          tripleEntanglementsFinal, pureEntanglementsMerged,
          constrainedEntanglementsMerged, gridSize, cpuCount, totalPatterns,
          outputPatterns, stage, workerStatus, completedWorkers, intervals,
          exitCode>>

\* ------------------------------------------------------------------------
\* Generic helpers
\* ------------------------------------------------------------------------
Idx(n) == 0 .. (n - 1)

Abs(x) == IF x < 0 THEN -x ELSE x

RECURSIVE SumUpTo(_, _)
SumUpTo(f, n) == IF n < 0 THEN 0 ELSE f[n] + SumUpTo(f, n - 1)

Top(s) == s[Len(s)]
Pop(s) == SubSeq(s, 1, Len(s) - 1)

\* ------------------------------------------------------------------------
\* ConfigurationEnumerator
\* ------------------------------------------------------------------------
EmptyGrid(n) == [r \in Idx(n) |-> [c \in Idx(n) |-> 0]]

\* a diagonal-blind variant of the placement test
isValidPlacementOrthogonal(g, n, row, col) ==
  \A dr \in {-1, 0, 1} : \A dc \in {-1, 0, 1} :
    ( /\ ~ (dr = 0 /\ dc = 0)
      /\ ~ (dr # 0 /\ dc # 0)
      /\ row + dr \in Idx(n)
      /\ col + dc \in Idx(n) ) => g[row + dr][col + dc] # 1

isValidPlacement(g, n, row, col) ==
  \A dr \in {-1, 0, 1} : \A dc \in {-1, 0, 1} :
    ( /\ ~ (dr = 0 /\ dc = 0)
      /\ row + dr \in Idx(n)
      /\ col + dc \in Idx(n) ) => g[row + dr][col + dc] # 1

countStarsInRow(g, n, row) == SumUpTo(g[row], n - 1)

countStarsInColumn(g, n, col) == SumUpTo([r \in Idx(n) |-> g[r][col]], n - 1)

\* a column counts as overfull one star too early
columnOverfullEager(g, n, s, col) == countStarsInColumn(g, n, col) >= s

\* "starsInCol > this.starsPerRow"
columnOverfull(g, n, s, col) == countStarsInColumn(g, n, col) > s

\* base case: every column holds exactly starsPerRow stars
allColumnsExact(g, n, s) == \A c \in Idx(n) : countStarsInColumn(g, n, c) = s

\* row end: no column holds too many stars
canProceed(g, n, s) == \A c \in Idx(n) : ~ columnOverfull(g, n, s, c)

Frame(row, col, pc) == [row |-> row, col |-> col, pc |-> pc]

\* "starsNeeded > remainingInRow" or the early column check
Pruned(g, n, s, row, col) ==
  \/ s - countStarsInRow(g, n, row) > n - col
  \/ (col > 0 /\ columnOverfull(g, n, s, col - 1))

\* constructor + enumerate(): solutions = [], zero grid, backtrack(grid, 0, 0)
EnumInit ==
  /\ boardSize \in 1 .. MaxBoard
  /\ starsPerRow \in 1 .. MaxStars
  /\ grid = EmptyGrid(boardSize)
  /\ stack = <<Frame(0, 0, "enter")>>
  /\ solutions = <<>>

AnaIdle ==
  /\ includeInherent = FALSE
  /\ pattern = <<>>
  /\ compatibleSolutions = <<>>
  /\ result = [kind |-> "none"]
  /\ generated = [kind |-> "none"]

None == [kind |-> "none"]

\* process.exit(code), or the exit of a process whose event loop is empty
Exit(code) == [kind |-> "exit", code |-> code]

\* no canonicalization call is in progress
CanonIdle ==
  /\ pointsStars = <<>>
  /\ pointsCells = <<>>
  /\ image = None
  /\ canonOut = None
  /\ canonAgain = None
  /\ canonImage = None
  /\ tripleOut = None
  /\ tripleImage = None
  /\ starsOut = None

\* no miner has been called
MineIdle ==
  /\ output = None
  /\ minOccurrences = 0
  /\ pureEntanglements = None
  /\ constrainedEntanglements = None
  /\ tripleEntanglements = None
  /\ tripleEntanglementsFinal = None

\* no merged stage output has been built
StageIdle ==
  /\ pureEntanglementsMerged = None
  /\ constrainedEntanglementsMerged = None

\* the coordinator has created no worker and the process has not exited
RunIdle ==
  /\ gridSize = 0
  /\ cpuCount = 0
  /\ totalPatterns = 0
  /\ outputPatterns = 0
  /\ stage = "none"
  /\ workerStatus = <<>>
  /\ completedWorkers = 0
  /\ intervals = {}
  /\ exitCode = None

PoolIdle ==
  /\ workerSlices = <<>>
  /\ analysed = {}
  /\ pendingProgress = <<>>
  /\ workerProgress = <<>>
  /\ totalProcessed = 0
  /\ workerResults = <<>>
  /\ written = <<>>

Init ==
  /\ phase = "enumerate"
  /\ EnumInit
  /\ AnaIdle
  /\ StageIdle
  /\ PoolIdle
  /\ RunIdle
  /\ CanonIdle
  /\ MineIdle

InBacktrack(pc) ==
  /\ phase = "enumerate"
  /\ stack # <<>>
  /\ Top(stack).pc = pc

\* row === boardSize: verify the columns, record the grid, return
BaseCase ==
  /\ InBacktrack("enter")
  /\ Top(stack).row = boardSize
  /\ solutions' = IF allColumnsExact(grid, boardSize, starsPerRow)
                  THEN Append(solutions, grid) ELSE solutions
  /\ stack' = Pop(stack)
  /\ UNCHANGED <<poolVars, runVars, stageVars, phase, boardSize, starsPerRow, grid, anaVars, canonVars, mineVars>>

\* the two pruning returns
Prune ==
  /\ InBacktrack("enter")
  /\ Top(stack).row < boardSize
  /\ Pruned(grid, boardSize, starsPerRow, Top(stack).row, Top(stack).col)
  /\ stack' = Pop(stack)
  /\ UNCHANGED <<poolVars, runVars, stageVars, phase, boardSize, starsPerRow, grid, solutions, anaVars, canonVars, mineVars>>

\* col === boardSize: go to the next row when the row is complete
NextRow ==
  /\ InBacktrack("enter")
  /\ Top(stack).row < boardSize
  /\ ~ Pruned(grid, boardSize, starsPerRow, Top(stack).row, Top(stack).col)
  /\ Top(stack).col = boardSize
  /\ LET f == Top(stack) IN
       IF /\ countStarsInRow(grid, boardSize, f.row) = starsPerRow
          /\ canProceed(grid, boardSize, starsPerRow)
       THEN stack' = Pop(stack) \o <<Frame(f.row, f.col, "return"),
                                      Frame(f.row + 1, 0, "enter")>>
       ELSE stack' = Pop(stack)
  /\ UNCHANGED <<poolVars, runVars, stageVars, phase, boardSize, starsPerRow, grid, solutions, anaVars, canonVars, mineVars>>

CanPlace(g, n, s, row, col) ==
  /\ countStarsInRow(g, n, row) < s
  /\ isValidPlacement(g, n, row, col)

\* "Try placing a star": grid[row][col] = 1; backtrack(grid, row, col + 1)
PlaceStar ==
  /\ InBacktrack("enter")
  /\ Top(stack).row < boardSize
  /\ ~ Pruned(grid, boardSize, starsPerRow, Top(stack).row, Top(stack).col)
  /\ Top(stack).col < boardSize
  /\ CanPlace(grid, boardSize, starsPerRow, Top(stack).row, Top(stack).col)
  /\ LET f == Top(stack) IN
       /\ grid' = [grid EXCEPT ![f.row][f.col] = 1]
       /\ stack' = Pop(stack) \o <<Frame(f.row, f.col, "placed"),
                                   Frame(f.row, f.col + 1, "enter")>>
  /\ UNCHANGED <<poolVars, runVars, stageVars, phase, boardSize, starsPerRow, solutions, anaVars, canonVars, mineVars>>

\* after the star branch returns: grid[row][col] = 0, then the empty branch
RemoveStar ==
  /\ InBacktrack("placed")
  /\ LET f == Top(stack) IN
       /\ grid' = [grid EXCEPT ![f.row][f.col] = 0]
       /\ stack' = Pop(stack) \o <<Frame(f.row, f.col, "return"),
                                   Frame(f.row, f.col + 1, "enter")>>
  /\ UNCHANGED <<poolVars, runVars, stageVars, phase, boardSize, starsPerRow, solutions, anaVars, canonVars, mineVars>>

\* "Try not placing a star" when no star can be placed at this cell
SkipCell ==
  /\ InBacktrack("enter")
  /\ Top(stack).row < boardSize
  /\ ~ Pruned(grid, boardSize, starsPerRow, Top(stack).row, Top(stack).col)
  /\ Top(stack).col < boardSize
  /\ ~ CanPlace(grid, boardSize, starsPerRow, Top(stack).row, Top(stack).col)
  /\ LET f == Top(stack) IN
       stack' = Pop(stack) \o <<Frame(f.row, f.col, "return"),
                                Frame(f.row, f.col + 1, "enter")>>
  /\ UNCHANGED <<poolVars, runVars, stageVars, phase, boardSize, starsPerRow, grid, solutions, anaVars, canonVars, mineVars>>

\* the last recursive call of a frame has returned
Return ==
  /\ InBacktrack("return")
  /\ stack' = Pop(stack)
  /\ UNCHANGED <<poolVars, runVars, stageVars, phase, boardSize, starsPerRow, grid, solutions, anaVars, canonVars, mineVars>>

\* enumerate() returns this.solutions; the caller then constructs a
\* PatternAnalyzer over them, with or without includeInherent
EnumerateDone ==
  /\ phase = "enumerate"
  /\ stack = <<>>
  /\ phase' = "analyze"
  /\ includeInherent' \in BOOLEAN
  /\ UNCHANGED <<poolVars, runVars, stageVars, enumVars, pattern, compatibleSolutions, result, generated,
                 canonVars, mineVars>>

EnumNext ==
  \/ BaseCase
  \/ Prune
  \/ NextRow
  \/ PlaceStar
  \/ RemoveStar
  \/ SkipCell
  \/ Return
  \/ EnumerateDone

\* ------------------------------------------------------------------------
\* PatternAnalyzer
\* ------------------------------------------------------------------------
Cell(r, c) == [row |-> r, col |-> c]

\* the board cells in row-major order, as the nested row/col loops visit them
AllCells(n) == [i \in 1 .. (n * n) |-> Cell((i - 1) \div n, (i - 1) % n)]

SeqRange(s) == {s[i] : i \in 1 .. Len(s)}

\* compatible as soon as one pattern cell holds a star
isPatternCompatibleAny(p, sol) ==
  \/ Len(p) = 0
  \/ \E i \in 1 .. Len(p) : sol[p[i].row][p[i].col] = 1

\* the for loop of isPatternCompatible, from pattern index i on
RECURSIVE isPatternCompatibleFrom(_, _, _)
isPatternCompatibleFrom(p, sol, i) ==
  IF i > Len(p) THEN TRUE
  ELSE IF sol[p[i].row][p[i].col] # 1 THEN FALSE
  ELSE isPatternCompatibleFrom(p, sol, i + 1)

isPatternCompatible(p, sol) == isPatternCompatibleFrom(p, sol, 1)

\* this.solutions.filter(solution => isPatternCompatible(pattern, solution))
CompatibleOf(p, sols) ==
  SelectSeq(sols, LAMBDA sol : isPatternCompatible(p, sol))

\* the set adjacentToStars: on-board 8-neighbours of pattern stars that are
\* not pattern cells themselves
adjacentToStars(p, n) ==
  {c \in SeqRange(AllCells(n)) :
     /\ c \notin SeqRange(p)
     /\ \E i \in 1 .. Len(p) :
          /\ Abs(c.row - p[i].row) <= 1
          /\ Abs(c.col - p[i].col) <= 1
          /\ ~ (c.row = p[i].row /\ c.col = p[i].col)}

\* number of compatible solutions with a star at (row, col)
starCount(compat, row, col) ==
  Len(SelectSeq(compat, LAMBDA sol : sol[row][col] = 1))

\* the classification without the adjacency shortcut
cellStateScanOnly(p, compat, n, row, col) ==
  IF Cell(row, col) \in SeqRange(p) THEN "forced_star"
  ELSE IF starCount(compat, row, col) = 0 THEN "forced_empty"
  ELSE IF starCount(compat, row, col) = Len(compat) THEN "forced_star"
  ELSE "flexible"

\* the classification that treats "no star" as "always a star"
cellStateSwapped(p, compat, n, row, col) ==
  IF Cell(row, col) \in SeqRange(p) THEN "forced_star"
  ELSE IF Cell(row, col) \in adjacentToStars(p, n) THEN "forced_empty"
  ELSE IF starCount(compat, row, col) = 0 THEN "forced_star"
  ELSE IF starCount(compat, row, col) = Len(compat) THEN "forced_empty"
  ELSE "flexible"

\* one entry of the cellStates matrix
cellState(p, compat, n, row, col) ==
  IF Cell(row, col) \in SeqRange(p) THEN "forced_star"
  ELSE IF Cell(row, col) \in adjacentToStars(p, n) THEN "forced_empty"
  ELSE IF starCount(compat, row, col) = 0 THEN "forced_empty"
  ELSE IF starCount(compat, row, col) = Len(compat) THEN "forced_star"
  ELSE "flexible"

cellStatesOf(p, compat, n) ==
  [r \in Idx(n) |-> [c \in Idx(n) |-> cellState(p, compat, n, r, c)]]

isNonTrivial(p, states, n) ==
  \E c \in SeqRange(AllCells(n)) :
    /\ c \notin SeqRange(p)
    /\ states[c.row][c.col] \in {"forced_star", "forced_empty"}

allSameRow(p) == Len(p) > 0 /\ \A i \in 1 .. Len(p) : p[i].row = p[1].row
allSameCol(p) == Len(p) > 0 /\ \A i \in 1 .. Len(p) : p[i].col = p[1].col

\* "isOnSameLine" of analyzePattern and the line test of shouldSkipPattern
isOnSameLine(p, c) ==
  \/ (allSameRow(p) /\ c.row = p[1].row)
  \/ (allSameCol(p) /\ c.col = p[1].col)

\* no pattern is filtered out
shouldSkipPatternNever(p, states, n) == FALSE

shouldSkipPattern(p, states, n) ==
  IF Len(p) = 0 THEN FALSE
  ELSE
    LET adjacentCells == adjacentToStars(p, n)
        others == {c \in SeqRange(AllCells(n)) : c \notin SeqRange(p)}
        allForcedEmpty == {c \in others : states[c.row][c.col] = "forced_empty"}
        allForcedStar == {c \in others : states[c.row][c.col] = "forced_star"}
        case1 == /\ allForcedEmpty \ adjacentCells = {}
                 /\ allForcedStar = {}
                 /\ allForcedEmpty \cap adjacentCells # {}
        case2 == /\ (allSameRow(p) \/ allSameCol(p))
                 /\ \A c \in allForcedEmpty :
                      c \in adjacentCells \/ isOnSameLine(p, c)
                 /\ allForcedEmpty # {}
                 /\ allForcedStar = {}
    IN case1 \/ case2

\* the filter without its same-line part
forcedEmptyOfOffAdjacent(p, states, n, inh) ==
  SelectSeq(AllCells(n), LAMBDA c :
    /\ c \notin SeqRange(p)
    /\ states[c.row][c.col] = "forced_empty"
    /\ (inh \/ c \notin adjacentToStars(p, n)))

\* the forcedEmpty list pushed in row-major order
forcedEmptyOf(p, states, n, inh) ==
  SelectSeq(AllCells(n), LAMBDA c :
    /\ c \notin SeqRange(p)
    /\ states[c.row][c.col] = "forced_empty"
    /\ (inh \/ (c \notin adjacentToStars(p, n) /\ ~ isOnSameLine(p, c))))

\* the forcedStar list pushed in row-major order
forcedStarOf(p, states, n) ==
  SelectSeq(AllCells(n), LAMBDA c :
    /\ c \notin SeqRange(p)
    /\ states[c.row][c.col] = "forced_star")

\* analyzePattern returns null
Null == [kind |-> "null"]

\* the analysis without the early return for an empty compatible set
analyzePatternUnchecked(p, sols, n, inh) ==
  LET compat == CompatibleOf(p, sols)
      states == cellStatesOf(p, compat, n)
  IN IF ~ isNonTrivial(p, states, n) THEN Null
     ELSE IF shouldSkipPattern(p, states, n) THEN Null
     ELSE [kind |-> "pattern",
           initial_stars |-> p,
           compatible_solutions |-> Len(compat),
           forced_empty |-> forcedEmptyOf(p, states, n, inh),
           forced_star |-> forcedStarOf(p, states, n)]

analyzePattern(p, sols, n, inh) ==
  LET compat == CompatibleOf(p, sols)
      states == cellStatesOf(p, compat, n)
  IN IF Len(compat) = 0 THEN Null
     ELSE IF ~ isNonTrivial(p, states, n) THEN Null
     ELSE IF shouldSkipPattern(p, states, n) THEN Null
     ELSE [kind |-> "pattern",
           initial_stars |-> p,
           compatible_solutions |-> Len(compat),
           forced_empty |-> forcedEmptyOf(p, states, n, inh),
           forced_star |-> forcedStarOf(p, states, n)]

\* generateCombinations(array, k, start, current, result): the k-element
\* combinations in the order they are pushed to result
RECURSIVE generateCombinations(_, _, _, _)
RECURSIVE combinationsLoop(_, _, _, _)
generateCombinations(array, k, start, current) ==
  IF Len(current) = k THEN <<current>>
  ELSE combinationsLoop(array, k, start, current)

\* the for loop "for (let i = start; i < array.length; i++)", from index i on
combinationsLoop(array, k, i, current) ==
  IF i > Len(array) THEN <<>>
  ELSE generateCombinations(array, k, i + 1, Append(current, array[i]))
         \o combinationsLoop(array, k, i + 1, current)

\* patterns handed to analyzePattern: every combination of up to MaxPattern
\* board cells, locally valid or not
PatternInputs(n) ==
  UNION {SeqRange(generateCombinations(AllCells(n), k, 1, <<>>)) :
           k \in 0 .. MaxPattern}

\* one call analyzer.analyzePattern(p); the call reads the analyzer's fields
\* and changes none, so every call starts from the state after construction
AnalyzePattern ==
  /\ phase = "analyze"
  /\ result.kind = "none"
  /\ generated.kind = "none"
  /\ \E p \in PatternInputs(boardSize) :
       /\ pattern' = p
       /\ compatibleSolutions' = CompatibleOf(p, solutions)
       /\ result' = analyzePattern(p, solutions, boardSize, includeInherent)
  /\ UNCHANGED <<poolVars, runVars, stageVars, phase, enumVars, includeInherent, generated, canonVars, mineVars>>

\* ConfigurationEnumerator.isLocallyValid: no two cells of the list within
\* one row and one column of each other
isLocallyValid(cells, n) ==
  \A i \in 1 .. Len(cells) : \A j \in (i + 1) .. Len(cells) :
    ~ (Abs(cells[i].row - cells[j].row) <= 1 /\ Abs(cells[i].col - cells[j].col) <= 1)

\* the generation without the realizability filter
generatePatternsValidOnly(patternSize, sols, n) ==
  SelectSeq(generateCombinations(AllCells(n), patternSize, 1, <<>>),
            LAMBDA p : isLocallyValid(p, n))

\* generatePatterns(patternSize): all combinations, filtered to the locally
\* valid ones, then to the ones some solution is compatible with
generatePatterns(patternSize, sols, n) ==
  LET patterns == generateCombinations(AllCells(n), patternSize, 1, <<>>)
      validPatterns == SelectSeq(patterns, LAMBDA p : isLocallyValid(p, n))
  IN SelectSeq(validPatterns, LAMBDA p :
       \E i \in 1 .. Len(sols) : isPatternCompatible(p, sols[i]))

\* one call analyzer.generatePatterns(patternSize)
GeneratePatterns ==
  /\ phase = "analyze"
  /\ result.kind = "none"
  /\ generated.kind = "none"
  /\ \E patternSize \in 0 .. MaxPattern :
       generated' = [kind |-> "patterns", patternSize |-> patternSize,
                     list |-> generatePatterns(patternSize, solutions, boardSize)]
  /\ UNCHANGED <<poolVars, runVars, stageVars, phase, enumVars, includeInherent, pattern, compatibleSolutions,
                 result, canonVars, mineVars>>

\* main, right after enumerate(): if (totalSolutions === 0) the message
\* 'No valid configurations found. Exiting.' is logged and process.exit(1)
\* is called; no Output is built or written
ExitNoSolutions ==
  /\ phase = "analyze"
  /\ exitCode = None
  /\ result.kind = "none"
  /\ generated.kind = "none"
  /\ Len(solutions) = 0
  /\ phase' = "exited"
  /\ exitCode' = Exit(1)
  /\ UNCHANGED <<poolVars, enumVars, anaVars, canonVars, mineVars, stageVars, gridSize,
                 cpuCount, totalPatterns, outputPatterns, stage, workerStatus,
                 completedWorkers, intervals>>

Next == EnumNext \/ AnalyzePattern \/ GeneratePatterns \/ ExitNoSolutions

\* the same run on boards large enough for the analyzer's filter to apply
AnalyzeInit ==
  /\ phase = "enumerate"
  /\ boardSize \in 1 .. MaxAnalyzeBoard
  /\ starsPerRow \in 1 .. MaxStars
  /\ grid = EmptyGrid(boardSize)
  /\ stack = <<Frame(0, 0, "enter")>>
  /\ solutions = <<>>
  /\ AnaIdle
  /\ StageIdle
  /\ PoolIdle
  /\ RunIdle
  /\ CanonIdle
  /\ MineIdle

SpecAnalyze == AnalyzeInit /\ [][Next]_vars

\* ------------------------------------------------------------------------
\* Properties of the enumerator
\* ------------------------------------------------------------------------
Max2(a, b) == IF a > b THEN a ELSE b

Chebyshev(a, b) == Max2(Abs(a.row - b.row), Abs(a.col - b.col))

StarsOf(g, n) == {c \in SeqRange(AllCells(n)) : g[c.row][c.col] = 1}

\* the three Star Battle rules, stated on a finished grid
ValidGrid(g, n, s) ==
  /\ \A r \in Idx(n) : Cardinality({c \in Idx(n) : g[r][c] = 1}) = s
  /\ \A c \in Idx(n) : Cardinality({r \in Idx(n) : g[r][c] = 1}) = s
  /\ \A a \in StarsOf(g, n) : \A b \in StarsOf(g, n) :
       a # b => Chebyshev(a, b) > 1

RowsWith(n, s) == {r \in [Idx(n) -> {0, 1}] : SumUpTo(r, n - 1) = s}

RowsTouch(a, b, n) ==
  \E c1 \in Idx(n) : \E c2 \in Idx(n) :
    a[c1] = 1 /\ b[c2] = 1 /\ Abs(c1 - c2) <= 1

\* stacks of k rows with s stars each in which no two consecutive rows touch;
\* every valid grid is such a stack of n rows
RECURSIVE RowStacks(_, _, _)
RowStacks(n, s, k) ==
  IF k = 0 THEN {<<>>}
  ELSE {q \in {Append(p, r) : p \in RowStacks(n, s, k - 1), r \in RowsWith(n, s)} :
          k = 1 \/ ~ RowsTouch(q[k - 1], q[k], n)}

\* every n x n 0/1 grid that satisfies the row, column and adjacency rules
AllValidGrids(n, s) ==
  {g \in {[r \in Idx(n) |-> q[r + 1]] : q \in RowStacks(n, s, n)} :
     ValidGrid(g, n, s)}

\* enumerate() has just returned
EnumerateReturned == phase = "analyze" /\ result.kind = "none"

\* C1: every grid returned by enumerate() has exactly S stars in each row and
\* each column and no two stars within Chebyshev distance 1
C1_ReturnedGridsValid ==
  phase # "enumerate" =>
    \A i \in 1 .. Len(solutions) :
      ValidGrid(solutions[i], boardSize, starsPerRow)

C1_Witness ==
  /\ phase = "analyze"
  /\ boardSize = 5
  /\ Len(solutions) > 1

\* C2: the returned list holds every valid grid exactly once, and is empty
\* when there is none
C2_ExhaustiveExact ==
  EnumerateReturned =>
    /\ SeqRange(solutions) = AllValidGrids(boardSize, starsPerRow)
    /\ \A i \in 1 .. Len(solutions) : \A j \in 1 .. Len(solutions) :
         solutions[i] = solutions[j] => i = j

C2_Witness ==
  /\ EnumerateReturned
  /\ boardSize = 4
  /\ starsPerRow = 1
  /\ Len(solutions) = 2

\* ------------------------------------------------------------------------
\* Properties of the pattern analyzer
\* ------------------------------------------------------------------------
HasStarAt(sol, c) == sol[c.row][c.col] = 1

\* CompatibleSet(pattern): the solutions with a star at every pattern cell
CompatibleSet(p, sols) ==
  {sol \in SeqRange(sols) : \A c \in SeqRange(p) : HasStarAt(sol, c)}

NonPatternCells(p, n) == SeqRange(AllCells(n)) \ SeqRange(p)

AnalyzedWithResult == phase = "analyze" /\ result.kind = "pattern"

\* C3: with includeInherent, forced_star is exactly the non-pattern cells
\* starred in every compatible solution, forced_empty exactly those starred in
\* none, and the adjacency shortcut classifies as a scan would
C3_ForcedCellsExact ==
  (AnalyzedWithResult /\ includeInherent) =>
    /\ SeqRange(result.forced_star) =
         {c \in NonPatternCells(pattern, boardSize) :
            \A sol \in CompatibleSet(pattern, solutions) : HasStarAt(sol, c)}
    /\ SeqRange(result.forced_empty) =
         {c \in NonPatternCells(pattern, boardSize) :
            \A sol \in CompatibleSet(pattern, solutions) : ~ HasStarAt(sol, c)}
    /\ \A c \in SeqRange(AllCells(boardSize)) :
         cellState(pattern, compatibleSolutions, boardSize, c.row, c.col)
           = cellStateScanOnly(pattern, compatibleSolutions, boardSize, c.row, c.col)

C3_Witness ==
  /\ AnalyzedWithResult
  /\ includeInherent
  /\ Len(pattern) = 2
  /\ result.compatible_solutions >= 2
  /\ result.forced_star # <<>>
  /\ \E c \in SeqRange(result.forced_empty) :
       c \in adjacentToStars(pattern, boardSize)
  /\ \E c \in SeqRange(result.forced_empty) :
       c \notin adjacentToStars(pattern, boardSize)

\* C10: isPatternCompatible is true exactly when every pattern cell holds a 1,
\* and analyzePattern's compatible set is the solutions for which it is true
C10_CompatibleExact ==
  (phase = "analyze" /\ result.kind # "none") =>
    /\ \A i \in 1 .. Len(solutions) :
         isPatternCompatible(pattern, solutions[i])
           <=> (\A c \in SeqRange(pattern) : HasStarAt(solutions[i], c))
    /\ compatibleSolutions =
         SelectSeq(solutions, LAMBDA sol : sol \in CompatibleSet(pattern, solutions))
    /\ result.kind = "pattern" =>
         result.compatible_solutions = Cardinality(CompatibleSet(pattern, solutions))

C10_Witness ==
  /\ phase = "analyze"
  /\ result.kind = "pattern"
  /\ Len(pattern) = 2
  /\ Len(compatibleSolutions) >= 1
  /\ \E i \in 1 .. Len(solutions) :
       /\ HasStarAt(solutions[i], pattern[1])
       /\ ~ HasStarAt(solutions[i], pattern[2])

\* ------------------------------------------------------------------------
\* Properties of generatePatterns
\* ------------------------------------------------------------------------
\* the z-element sets of board cells that are pairwise more than Chebyshev
\* distance 1 apart and are all stars in some enumerated solution
RealizableSubsets(z, n, sols) ==
  UNION {{s \in SUBSET StarsOf(sols[i], n) :
            /\ Cardinality(s) = z
            /\ \A a \in s : \A b \in s : a # b => Chebyshev(a, b) > 1} :
         i \in 1 .. Len(sols)}

\* C11: generatePatterns(Z) returns exactly the locally valid, realizable
\* Z-element subsets of the board cells, each exactly once, and every returned
\* pattern has exactly Z distinct cells
C11_GeneratedExact ==
  generated.kind = "patterns" =>
    /\ {SeqRange(generated.list[i]) : i \in 1 .. Len(generated.list)}
         = RealizableSubsets(generated.patternSize, boardSize, solutions)
    /\ \A i \in 1 .. Len(generated.list) : \A j \in 1 .. Len(generated.list) :
         i # j => SeqRange(generated.list[i]) # SeqRange(generated.list[j])
    /\ \A i \in 1 .. Len(generated.list) :
         /\ Len(generated.list[i]) = generated.patternSize
         /\ Cardinality(SeqRange(generated.list[i])) = generated.patternSize

C11_Witness ==
  /\ generated.kind = "patterns"
  /\ generated.patternSize = 2
  /\ boardSize = 4
  /\ Len(solutions) = 2
  /\ Len(generated.list) > 0
  /\ Len(generated.list) < 78

\* ------------------------------------------------------------------------
\* Properties of the patterns array
\* ------------------------------------------------------------------------
\* the pattern is realizable: some solution has a star at every pattern cell
Realizable(p, sols) == CompatibleSet(p, sols) # {}

\* some cell outside the pattern holds a star in every compatible solution or
\* in none of them
NonTrivial(p, sols, n) ==
  \E c \in NonPatternCells(p, n) :
    \/ \A sol \in CompatibleSet(p, sols) : HasStarAt(sol, c)
    \/ \A sol \in CompatibleSet(p, sols) : ~ HasStarAt(sol, c)

\* C12: analyzePattern returns a pattern object for every realizable pattern
\* that is non-trivial, that is, has a forced_star or forced_empty cell
\* outside the pattern
C12_NonTrivialReported ==
  (/\ phase = "analyze"
   /\ result.kind # "none"
   /\ Realizable(pattern, solutions)
   /\ NonTrivial(pattern, solutions, boardSize))
    => result.kind = "pattern"

\* C13: with includeInherent = false every result lists every on-board cell
\* adjacent to a pattern star in forced_empty; on the 4x4 board with one star
\* per row the pattern [(0,0)] reports (0,1), (1,0) and (1,1) forced_empty
C13_AdjacentListed ==
  (phase = "analyze" /\ result.kind # "none" /\ ~ includeInherent) =>
    /\ result.kind = "pattern" =>
         \A c \in SeqRange(AllCells(boardSize)) :
           (\E i \in 1 .. Len(pattern) : Chebyshev(c, pattern[i]) = 1)
             => c \in SeqRange(result.forced_empty)
    /\ (boardSize = 4 /\ starsPerRow = 1 /\ pattern = <<Cell(0, 0)>>) =>
         /\ result.kind = "pattern"
         /\ {Cell(0, 1), Cell(1, 0), Cell(1, 1)} \subseteq SeqRange(result.forced_empty)

\* the cell touches a pattern star
TouchesPattern(p, c) == \E i \in 1 .. Len(p) : Chebyshev(c, p[i]) = 1

\* all pattern stars share one row, or one column, and the cell is on it
OnCommonLine(p, c) ==
  /\ Len(p) > 0
  /\ \/ \A i \in 1 .. Len(p) : p[i].row = c.row
     \/ \A i \in 1 .. Len(p) : p[i].col = c.col

\* the non-pattern cells that are empty in every compatible solution
ForcedEmptyCells(p, sols, n) ==
  {c \in NonPatternCells(p, n) : \A sol \in CompatibleSet(p, sols) : ~ HasStarAt(sol, c)}

C14_NullWhenUnrealizable ==
  (phase = "analyze" /\ result.kind # "none") =>
    /\ CompatibleSet(pattern, solutions) = {} => result = Null
    /\ result.kind = "pattern" =>
         /\ result.compatible_solutions =
              Cardinality({i \in 1 .. Len(solutions) :
                             \A c \in SeqRange(pattern) : HasStarAt(solutions[i], c)})
         /\ result.compatible_solutions >= 1

C14_Witness ==
  /\ phase = "analyze"
  /\ result = Null
  /\ Len(solutions) > 1
  /\ Len(pattern) = 2
  /\ Chebyshev(pattern[1], pattern[2]) > 1
  /\ CompatibleSet(pattern, solutions) = {}

\* two cells of the pattern touch: they are within one row and one column
HasTouchingCells(p) ==
  \E i \in 1 .. Len(p) : \E j \in 1 .. Len(p) : i # j /\ Chebyshev(p[i], p[j]) <= 1

\* C24: analyzePattern over the enumerator's solutions returns null for every
\* pattern of distinct cells two of which lie within Chebyshev distance 1
C24_TouchingPatternIsNull ==
  (phase = "analyze" /\ result.kind # "none" /\ HasTouchingCells(pattern)) =>
    result = Null

\* a pattern of two diagonal neighbours analysed on a board with solutions
C24_Witness ==
  /\ phase = "analyze"
  /\ result = Null
  /\ Len(solutions) > 1
  /\ Len(pattern) = 2
  /\ Abs(pattern[1].row - pattern[2].row) = 1
  /\ Abs(pattern[1].col - pattern[2].col) = 1

\* C30: a non-null result of analyzePattern, for either includeInherent and
\* any pattern size, lists at least one forced cell, no pattern cell, no cell
\* in both lists, and only cells of the board
C30_ResultWellFormed ==
  AnalyzedWithResult =>
    /\ Len(result.forced_empty) + Len(result.forced_star) >= 1
    /\ (SeqRange(result.forced_empty) \cup SeqRange(result.forced_star))
         \cap SeqRange(pattern) = {}
    /\ SeqRange(result.forced_empty) \cap SeqRange(result.forced_star) = {}
    /\ \A c \in SeqRange(result.forced_empty) \cup SeqRange(result.forced_star) :
         /\ c.row \in 0 .. boardSize - 1
         /\ c.col \in 0 .. boardSize - 1

\* a two-star pattern analysed without inherent cells: the result lists a
\* forced cell although the cells touching the stars were left out
C30_Witness ==
  /\ AnalyzedWithResult
  /\ ~ includeInherent
  /\ Len(pattern) = 2
  /\ \E c \in ForcedEmptyCells(pattern, solutions, boardSize) :
       TouchesPattern(pattern, c) /\ c \notin SeqRange(result.forced_empty)

\* ------------------------------------------------------------------------
\* Canonicalizer (D4 + translation)
\* ------------------------------------------------------------------------
\* JavaScript strings are modelled as sequences of UTF-16 code units
ChLBracket == 91
ChRBracket == 93
ChComma == 44
ChMinus == 45
ChZero == 48

\* decimal digits of a natural number, as String(n) prints them
RECURSIVE NatStr(_)
NatStr(n) ==
  IF n < 10 THEN <<ChZero + n>>
  ELSE NatStr(n \div 10) \o <<ChZero + (n % 10)>>

NumStr(n) == IF n < 0 THEN <<ChMinus>> \o NatStr(-n) ELSE NatStr(n)

\* JSON.stringify of one Point: "[r,c]"
PointStr(p) ==
  <<ChLBracket>> \o NumStr(p[1]) \o <<ChComma>> \o NumStr(p[2]) \o <<ChRBracket>>

RECURSIVE JoinPoints(_, _)
JoinPoints(ps, i) ==
  IF i > Len(ps) THEN <<>>
  ELSE (IF i > 1 THEN <<ChComma>> ELSE <<>>) \o PointStr(ps[i])
         \o JoinPoints(ps, i + 1)

\* JSON.stringify of a Point[]: "[[r,c],[r,c]]"
stringify(ps) == <<ChLBracket>> \o JoinPoints(ps, 1) \o <<ChRBracket>>

\* the "<" of two JavaScript strings: code unit by code unit, a proper prefix
\* is smaller
RECURSIVE StrLess(_, _)
StrLess(a, b) ==
  IF Len(b) = 0 THEN FALSE
  ELSE IF Len(a) = 0 THEN TRUE
  ELSE IF a[1] < b[1] THEN TRUE
  ELSE IF a[1] > b[1] THEN FALSE
  ELSE StrLess(Tail(a), Tail(b))

\* transforms[t](r, c)
transforms(t, p) ==
  CASE t = 0 -> <<p[1], p[2]>>
    [] t = 1 -> <<-p[1], p[2]>>
    [] t = 2 -> <<p[1], -p[2]>>
    [] t = 3 -> <<-p[1], -p[2]>>
    [] t = 4 -> <<p[2], p[1]>>
    [] t = 5 -> <<-p[2], p[1]>>
    [] t = 6 -> <<p[2], -p[1]>>
    [] t = 7 -> <<-p[2], -p[1]>>

\* D4_TRANSFORMS[t]([r, c]), the list used by canonicalizeTriple
D4_TRANSFORMS(t, p) ==
  CASE t = 0 -> <<p[1], p[2]>>
    [] t = 1 -> <<p[1], -p[2]>>
    [] t = 2 -> <<-p[1], p[2]>>
    [] t = 3 -> <<-p[1], -p[2]>>
    [] t = 4 -> <<p[2], p[1]>>
    [] t = 5 -> <<p[2], -p[1]>>
    [] t = 6 -> <<-p[2], p[1]>>
    [] t = 7 -> <<-p[2], -p[1]>>

NumTransforms == 8

\* Math.min(...xs) of a non-empty list
RECURSIVE MinFrom(_, _)
MinFrom(xs, i) ==
  IF i = Len(xs) THEN xs[i]
  ELSE LET m == MinFrom(xs, i + 1) IN IF xs[i] < m THEN xs[i] ELSE m

MathMin(xs) == MinFrom(xs, 1)

\* a shift that forgets the column
shiftRowOnly(p, minRow, minCol) == <<p[1] - minRow, p[2]>>

\* shift = p => [p[0] - minRow, p[1] - minCol]
shift(p, minRow, minCol) == <<p[1] - minRow, p[2] - minCol>>

\* the comparator (a, b) => a[0] - b[0] || a[1] - b[1]
comparePoints(a, b) == IF a[1] - b[1] # 0 THEN a[1] - b[1] ELSE a[2] - b[2]

\* p put into the sorted list after every element that is not greater
RECURSIVE insertSorted(_, _)
insertSorted(sorted, p) ==
  IF Len(sorted) = 0 THEN <<p>>
  ELSE IF comparePoints(p, sorted[1]) < 0 THEN <<p>> \o sorted
  ELSE <<sorted[1]>> \o insertSorted(Tail(sorted), p)

\* Array.prototype.sort with comparePoints (stable)
RECURSIVE sortFrom(_, _, _)
sortFrom(ps, i, acc) ==
  IF i > Len(ps) THEN acc ELSE sortFrom(ps, i + 1, insertSorted(acc, ps[i]))

sortPoints(ps) == sortFrom(ps, 1, <<>>)

\* the body of canonicalize's loop for transform t
candidateAt(stars, cells, t) ==
  LET sT == [i \in 1 .. Len(stars) |-> transforms(t, stars[i])]
      cT == [i \in 1 .. Len(cells) |-> transforms(t, cells[i])]
      minRow == MathMin([i \in 1 .. Len(sT) |-> sT[i][1]])
      minCol == MathMin([i \in 1 .. Len(sT) |-> sT[i][2]])
      sN == sortPoints([i \in 1 .. Len(sT) |-> shift(sT[i], minRow, minCol)])
      cN == sortPoints([i \in 1 .. Len(cT) |-> shift(cT[i], minRow, minCol)])
  IN [kind |-> "canonical",
      canonicalStars |-> sN,
      canonicalCells |-> cN,
      transformIndex |-> t,
      translation |-> <<minRow, minCol>>]

\* the later of two equal keys wins
keepsCandidateOrTie(cand, best) ==
  \/ best.kind = "none"
  \/ ~ StrLess(stringify(best.canonicalStars), stringify(cand.canonicalStars))

\* "!bestStars || key < bestKey"
keepsCandidate(cand, best) ==
  \/ best.kind = "none"
  \/ StrLess(stringify(cand.canonicalStars), stringify(best.canonicalStars))

RECURSIVE canonicalizeFrom(_, _, _, _)
canonicalizeFrom(stars, cells, t, best) ==
  IF t = NumTransforms THEN best
  ELSE LET cand == candidateAt(stars, cells, t)
       IN canonicalizeFrom(stars, cells, t + 1,
                           IF keepsCandidate(cand, best) THEN cand ELSE best)

Thrown(msg) == [kind |-> "error", message |-> msg]

canonicalize(stars, cells) ==
  IF Len(stars) = 0 THEN Thrown("canonicalize expects at least one star")
  ELSE canonicalizeFrom(stars, cells, 0, None)

\* the wrapper that throws only for an empty star list
canonicalizeStarsNonEmpty(initialStars) ==
  IF Len(initialStars) = 0 THEN Thrown("canonicalizeStars expects exactly 2 stars")
  ELSE [kind |-> "starPair",
        canonicalStars |-> canonicalize(initialStars, <<>>).canonicalStars,
        transformIndex |-> canonicalize(initialStars, <<>>).transformIndex,
        translation |-> canonicalize(initialStars, <<>>).translation]

\* canonicalizeStars: the star-pair wrapper of canonicalize
canonicalizeStars(initialStars) ==
  IF Len(initialStars) # 2 THEN Thrown("canonicalizeStars expects exactly 2 stars")
  ELSE LET canonical == canonicalize(initialStars, <<>>)
       IN [kind |-> "starPair",
           canonicalStars |-> <<canonical.canonicalStars[1], canonical.canonicalStars[2]>>,
           transformIndex |-> canonical.transformIndex,
           translation |-> canonical.translation]

\* the body of canonicalizeTriple's loop for transform t
tripleCandidateAt(stars, candidate, t) ==
  LET sT == [i \in 1 .. Len(stars) |-> D4_TRANSFORMS(t, stars[i])]
      cT == D4_TRANSFORMS(t, candidate)
      minRow == MathMin([i \in 1 .. Len(sT) |-> sT[i][1]])
      minCol == MathMin([i \in 1 .. Len(sT) |-> sT[i][2]])
  IN [kind |-> "triple",
      canonicalStars |-> sortPoints([i \in 1 .. Len(sT) |-> shift(sT[i], minRow, minCol)]),
      canonicalCandidate |-> shift(cT, minRow, minCol)]

RECURSIVE canonicalizeTripleFrom(_, _, _, _)
canonicalizeTripleFrom(stars, candidate, t, best) ==
  IF t = NumTransforms THEN best
  ELSE LET cand == tripleCandidateAt(stars, candidate, t)
       IN canonicalizeTripleFrom(stars, candidate, t + 1,
            IF best.kind = "none" THEN cand
            ELSE IF StrLess(stringify(cand.canonicalStars),
                            stringify(best.canonicalStars)) THEN cand
            ELSE best)

canonicalizeTriple(stars, candidate) ==
  canonicalizeTripleFrom(stars, candidate, 0, None)

\* the enumerator is not running
EnumIdle ==
  /\ boardSize = 0
  /\ starsPerRow = 0
  /\ grid = EmptyGrid(0)
  /\ stack = <<>>
  /\ solutions = <<>>

\* the points offered to the canonicalizer: a small box and one far point
\* with two-digit coordinates
CanonPointSeq ==
  [i \in 1 .. ((MaxCoord + 1) * (MaxCoord + 1) + 1) |->
     IF i <= (MaxCoord + 1) * (MaxCoord + 1)
     THEN <<(i - 1) \div (MaxCoord + 1), (i - 1) % (MaxCoord + 1)>>
     ELSE <<FarCoord, FarCoord>>]

PointLists(maxLen) ==
  UNION {SeqRange(generateCombinations(CanonPointSeq, k, 1, <<>>)) :
           k \in 0 .. maxLen}

CanonInit ==
  /\ phase = "canon"
  /\ EnumIdle
  /\ AnaIdle
  /\ StageIdle
  /\ PoolIdle
  /\ RunIdle
  /\ MineIdle
  /\ pointsStars \in PointLists(MaxCanonStars)
  /\ pointsCells \in PointLists(MaxCanonCells)
  /\ image = None
  /\ canonOut = None
  /\ canonAgain = None
  /\ canonImage = None
  /\ tripleOut = None
  /\ tripleImage = None
  /\ starsOut = None

\* the occurrence obtained from ps by transform t followed by a translation
ImageOf(ps, img) ==
  [i \in 1 .. Len(ps) |->
     <<transforms(img.t, ps[i])[1] + img.shift[1],
       transforms(img.t, ps[i])[2] + img.shift[2]>>]

Images ==
  {[kind |-> "image", t |-> t, shift |-> <<dr, dc>>] :
     t \in 0 .. (NumTransforms - 1), dr \in 0 .. MaxShift, dc \in 0 .. MaxShift}

\* canonicalizeStars(pointsStars)
CanonicalizeStars ==
  /\ phase = "canon"
  /\ starsOut = None
  /\ starsOut' = canonicalizeStars(pointsStars)
  /\ UNCHANGED <<poolVars, runVars, stageVars, phase, enumVars, anaVars, mineVars, pointsStars, pointsCells, image,
                 canonOut, canonAgain, canonImage, tripleOut, tripleImage>>

\* canonicalize(pointsStars, pointsCells)
Canonicalize ==
  /\ phase = "canon"
  /\ starsOut # None
  /\ canonOut = None
  /\ canonOut' = canonicalize(pointsStars, pointsCells)
  /\ UNCHANGED <<poolVars, runVars, stageVars, phase, enumVars, anaVars, mineVars, pointsStars, pointsCells, image,
                 canonAgain, canonImage, tripleOut, tripleImage, starsOut>>

\* the canonical form fed back in
CanonicalizeAgain ==
  /\ phase = "canon"
  /\ canonOut.kind = "canonical"
  /\ canonAgain = None
  /\ canonAgain' = canonicalize(canonOut.canonicalStars, canonOut.canonicalCells)
  /\ UNCHANGED <<poolVars, runVars, stageVars, phase, enumVars, anaVars, mineVars, pointsStars, pointsCells, image,
                 canonOut, canonImage, tripleOut, tripleImage, starsOut>>

\* canonicalize of a symmetric occurrence of the same geometry
CanonicalizeImage ==
  /\ phase = "canon"
  /\ canonAgain # None
  /\ canonImage = None
  /\ \E img \in Images :
       /\ image' = img
       /\ canonImage' = canonicalize(ImageOf(pointsStars, img),
                                     ImageOf(pointsCells, img))
  /\ UNCHANGED <<poolVars, runVars, stageVars, phase, enumVars, anaVars, mineVars, pointsStars, pointsCells,
                 canonOut, canonAgain, tripleOut, tripleImage, starsOut>>

\* canonicalizeTriple(pointsStars, candidate) for a single candidate cell
CanonicalizeTriple ==
  /\ phase = "canon"
  /\ canonImage # None
  /\ Len(pointsCells) = 1
  /\ tripleOut = None
  /\ tripleOut' = canonicalizeTriple(pointsStars, pointsCells[1])
  /\ UNCHANGED <<poolVars, runVars, stageVars, phase, enumVars, anaVars, mineVars, pointsStars, pointsCells, image,
                 canonOut, canonAgain, canonImage, tripleImage, starsOut>>

\* canonicalizeTriple of the symmetric occurrence
CanonicalizeTripleImage ==
  /\ phase = "canon"
  /\ tripleOut # None
  /\ tripleImage = None
  /\ tripleImage' = canonicalizeTriple(ImageOf(pointsStars, image),
                                       ImageOf(pointsCells, image)[1])
  /\ UNCHANGED <<poolVars, runVars, stageVars, phase, enumVars, anaVars, mineVars, pointsStars, pointsCells, image,
                 canonOut, canonAgain, canonImage, tripleOut, starsOut>>

CanonNext ==
  \/ CanonicalizeStars
  \/ Canonicalize
  \/ CanonicalizeAgain
  \/ CanonicalizeImage
  \/ CanonicalizeTriple
  \/ CanonicalizeTripleImage

SpecCanon == CanonInit /\ [][CanonNext]_vars

\* C4: a star set and any D4 image of it, translated, have the same
\* canonicalStars
C4_SymmetricStarsAgree ==
  (canonOut.kind = "canonical" /\ canonImage.kind = "canonical") =>
    canonImage.canonicalStars = canonOut.canonicalStars

C4_Witness ==
  /\ canonOut.kind = "canonical"
  /\ canonImage.kind = "canonical"
  /\ Len(pointsStars) = 2
  /\ image.t = 5
  /\ image.shift = <<1, 1>>
  /\ canonImage.transformIndex # canonOut.transformIndex

\* C16: canonicalize throws 'canonicalize expects at least one star' for an
\* empty star list and canonicalizeStars throws 'canonicalizeStars expects
\* exactly 2 stars' for every star list whose length is not 2
C16_InvalidGeometryThrows ==
  /\ (canonOut # None /\ Len(pointsStars) = 0) =>
       canonOut = [kind |-> "error",
                   message |-> "canonicalize expects at least one star"]
  /\ (starsOut # None /\ Len(pointsStars) # 2) =>
       starsOut = [kind |-> "error",
                   message |-> "canonicalizeStars expects exactly 2 stars"]

C16_Witness ==
  /\ Len(pointsStars) = 0
  /\ canonOut.kind = "error"
  /\ starsOut.kind = "error"

\* C5: symmetric occurrences also agree on canonicalCells, and on the
\* candidate returned by canonicalizeTriple
C5_SymmetricCellsAgree ==
  /\ (canonOut.kind = "canonical" /\ canonImage.kind = "canonical") =>
       /\ canonImage.canonicalStars = canonOut.canonicalStars
       /\ canonImage.canonicalCells = canonOut.canonicalCells
  /\ (tripleOut.kind = "triple" /\ tripleImage.kind = "triple") =>
       tripleImage.canonicalCandidate = tripleOut.canonicalCandidate

\* C6: canonicalize applied to its own result returns the same stars and cells
C6_Idempotent ==
  (canonOut.kind = "canonical" /\ canonAgain.kind = "canonical") =>
    /\ canonAgain.canonicalStars = canonOut.canonicalStars
    /\ canonAgain.canonicalCells = canonOut.canonicalCells

C6_Witness ==
  /\ canonOut.kind = "canonical"
  /\ canonAgain.kind = "canonical"
  /\ canonOut.transformIndex # 0
  /\ Len(canonOut.canonicalCells) = 1
  /\ canonOut.canonicalCells # pointsCells

\* a point precedes another: smaller row, or equal row and smaller column
PointBefore(a, b) == a[1] < b[1] \/ (a[1] = b[1] /\ a[2] < b[2])

\* a point list precedes another of the same length, point by point
ListBefore(a, b) ==
  \E k \in 1 .. Len(a) :
    /\ \A i \in 1 .. (k - 1) : a[i] = b[i]
    /\ PointBefore(a[k], b[k])

\* the sorted star lists of the 8 translated transform images
ImageStarLists(stars) ==
  [t \in 0 .. (NumTransforms - 1) |-> candidateAt(stars, <<>>, t).canonicalStars]

\* C25: canonicalStars is the smallest of the 8 sorted image star lists,
\* compared row then column point by point; transformIndex is the lowest
\* index of a transform producing it; canonicalStars has minimum row 0,
\* minimum column 0 and as many points as the input
C25_SmallestImage ==
  canonOut.kind = "canonical" =>
    /\ \A t \in 0 .. (NumTransforms - 1) :
         ~ ListBefore(ImageStarLists(pointsStars)[t], canonOut.canonicalStars)
    /\ ImageStarLists(pointsStars)[canonOut.transformIndex] = canonOut.canonicalStars
    /\ \A t \in 0 .. (canonOut.transformIndex - 1) :
         ImageStarLists(pointsStars)[t] # canonOut.canonicalStars
    /\ Len(canonOut.canonicalStars) = Len(pointsStars)
    /\ \E i \in 1 .. Len(canonOut.canonicalStars) : canonOut.canonicalStars[i][1] = 0
    /\ \E i \in 1 .. Len(canonOut.canonicalStars) : canonOut.canonicalStars[i][2] = 0
    /\ \A i \in 1 .. Len(canonOut.canonicalStars) :
         canonOut.canonicalStars[i][1] >= 0 /\ canonOut.canonicalStars[i][2] >= 0

\* ------------------------------------------------------------------------
\* Shared by the miners: Cell -> Point, Map, JSON.parse, localeCompare
\* ------------------------------------------------------------------------
\* cells.map(cell => [cell.row, cell.col])
toPoints(cells) == [i \in 1 .. Len(cells) |-> <<cells[i].row, cells[i].col>>]

\* a Map is the list of its entries [key, ...] in insertion order
MapHas(m, k) == \E i \in 1 .. Len(m) : m[i].key = k

MapIndex(m, k) == CHOOSE i \in 1 .. Len(m) : m[i].key = k

IsDigit(ch) == ch >= ChZero /\ ch <= ChZero + 9

\* the digits from position i on: <<value, position after the last digit>>
RECURSIVE parseDigits(_, _, _)
parseDigits(s, i, acc) ==
  IF i <= Len(s) /\ IsDigit(s[i])
  THEN parseDigits(s, i + 1, acc * 10 + (s[i] - ChZero))
  ELSE <<acc, i>>

parseNumber(s, i) ==
  IF s[i] = ChMinus
  THEN LET d == parseDigits(s, i + 1, 0) IN <<-d[1], d[2]>>
  ELSE parseDigits(s, i, 0)

\* "[r,c]" starting at position i: <<point, position after "]">>
parsePoint(s, i) ==
  LET r == parseNumber(s, i + 1)
      c == parseNumber(s, r[2] + 1)
  IN <<(<<r[1], c[1]>>), c[2] + 1>>

RECURSIVE parseElements(_, _, _)
parseElements(s, i, acc) ==
  IF s[i] = ChRBracket THEN acc
  ELSE IF s[i] = ChComma THEN parseElements(s, i + 1, acc)
  ELSE LET p == parsePoint(s, i) IN parseElements(s, p[2], Append(acc, p[1]))

\* JSON.parse of a stringified Point[]
parse(s) == parseElements(s, 2, <<>>)

\* primary collation order of the characters of a key: punctuation before
\* digits, "-" < "," < "[" < "]" < "0" < ... < "9"
collationWeight(ch) ==
  CASE ch = ChMinus -> 1
    [] ch = ChComma -> 2
    [] ch = ChLBracket -> 3
    [] ch = ChRBracket -> 4
    [] OTHER -> 5 + (ch - ChZero)

\* a.localeCompare(b)
RECURSIVE localeCompare(_, _)
localeCompare(a, b) ==
  IF Len(a) = 0 /\ Len(b) = 0 THEN 0
  ELSE IF Len(a) = 0 THEN -1
  ELSE IF Len(b) = 0 THEN 1
  ELSE IF collationWeight(a[1]) < collationWeight(b[1]) THEN -1
  ELSE IF collationWeight(a[1]) > collationWeight(b[1]) THEN 1
  ELSE localeCompare(Tail(a), Tail(b))

\* the comparator of both rule sorts: occurrences descending, then the
\* stringified canonical_stars
compareRules(a, b) ==
  IF b.occurrences # a.occurrences THEN b.occurrences - a.occurrences
  ELSE localeCompare(stringify(a.canonical_stars), stringify(b.canonical_stars))

RECURSIVE insertRule(_, _)
insertRule(sorted, x) ==
  IF Len(sorted) = 0 THEN <<x>>
  ELSE IF compareRules(x, sorted[1]) < 0 THEN <<x>> \o sorted
  ELSE <<sorted[1]>> \o insertRule(Tail(sorted), x)

RECURSIVE sortRulesFrom(_, _, _)
sortRulesFrom(rules, i, acc) ==
  IF i > Len(rules) THEN acc
  ELSE sortRulesFrom(rules, i + 1, insertRule(acc, rules[i]))

\* rules.sort(...) (stable)
sortRules(rules) == sortRulesFrom(rules, 1, <<>>)

\* ------------------------------------------------------------------------
\* extractPureEntanglements
\* ------------------------------------------------------------------------
\* the loop body over output.patterns: update starClasses for one pattern
pureStep(starClasses, p) ==
  LET initialStars == toPoints(p.initial_stars)
  IN IF Len(initialStars) = 0 THEN starClasses
     ELSE
       LET forcedEmpty == toPoints(p.forced_empty)
           canon == canonicalize(initialStars, forcedEmpty)
           starKey == stringify(canon.canonicalStars)
           emptiesKey == stringify(canon.canonicalCells)
           classes == IF MapHas(starClasses, starKey) THEN starClasses
                      ELSE Append(starClasses, [key |-> starKey,
                                                occurrenceCount |-> 0,
                                                emptiesMap |-> <<>>])
           i == MapIndex(classes, starKey)
           em == classes[i].emptiesMap
           em1 == IF MapHas(em, emptiesKey)
                  THEN [em EXCEPT ![MapIndex(em, emptiesKey)].value = @ + 1]
                  ELSE Append(em, [key |-> emptiesKey, value |-> 1])
       IN [classes EXCEPT ![i] = [key |-> starKey,
                                  occurrenceCount |-> @.occurrenceCount + 1,
                                  emptiesMap |-> em1]]

\* the loop over patterns[lo .. hi], run as the loop over the first half of
\* the range followed by the loop over the second half; the map left by the
\* first half is complete before the second half starts
RECURSIVE starClassesOver(_, _, _, _)
starClassesOver(patterns, lo, hi, starClasses) ==
  IF lo > hi THEN starClasses
  ELSE IF lo = hi THEN pureStep(starClasses, patterns[lo])
  ELSE LET firstHalf == starClassesOver(patterns, lo, (lo + hi) \div 2, starClasses)
       IN IF Len(firstHalf) = 0 THEN starClassesOver(patterns, (lo + hi) \div 2 + 1, hi, <<>>)
          ELSE starClassesOver(patterns, (lo + hi) \div 2 + 1, hi, firstHalf)

starClassesFrom(patterns, i, starClasses) ==
  starClassesOver(patterns, i, Len(patterns), starClasses)

\* a purity test that only counts occurrences
isPureClassByCount(starClass, minOcc) == starClass.occurrenceCount >= minOcc

\* "distinctForcedPatterns === 1 && totalOccurrences >= minOccurrences"
isPureClass(starClass, minOcc) ==
  Len(starClass.emptiesMap) = 1 /\ starClass.occurrenceCount >= minOcc

RECURSIVE pureTemplatesFrom(_, _, _)
pureTemplatesFrom(starClasses, i, minOcc) ==
  IF i > Len(starClasses) THEN <<>>
  ELSE (IF isPureClass(starClasses[i], minOcc)
        THEN <<[canonical_stars |-> parse(starClasses[i].key),
                canonical_forced_empty |-> parse(starClasses[i].emptiesMap[1].key),
                occurrences |-> starClasses[i].occurrenceCount]>>
        ELSE <<>>)
       \o pureTemplatesFrom(starClasses, i + 1, minOcc)

extractPureEntanglements(out, minOcc) ==
  [kind |-> "pure",
   board_size |-> out.board_size,
   initial_stars |-> out.initial_star_count,
   pure_entanglement_templates |->
     sortRules(pureTemplatesFrom(starClassesFrom(out.patterns, 1, <<>>), 1, minOcc))]

\* ------------------------------------------------------------------------
\* mineConstrainedEntanglements
\* ------------------------------------------------------------------------
RECURSIVE MaxFrom(_, _)
MaxFrom(xs, i) ==
  IF i = Len(xs) THEN xs[i]
  ELSE LET m == MaxFrom(xs, i + 1) IN IF xs[i] > m THEN xs[i] ELSE m

MathMax(xs) == MaxFrom(xs, 1)

hasEmptyInRegion(empties, minR, maxR, minC, maxC) ==
  \E i \in 1 .. Len(empties) :
    /\ empties[i][1] >= minR /\ empties[i][1] <= maxR
    /\ empties[i][2] >= minC /\ empties[i][2] <= maxC

extractFeatures(occurrence, n) ==
  LET stars == occurrence.abs_stars
      empties == occurrence.abs_forced_empty
  IN IF Len(stars) = 0 THEN Thrown("extractFeatures expects at least one star")
     ELSE
       LET S == 1 .. Len(stars)
           E == 1 .. Len(empties)
           minRow == MathMin([i \in S |-> stars[i][1]])
           maxRow == MathMax([i \in S |-> stars[i][1]])
           minCol == MathMin([i \in S |-> stars[i][2]])
           maxCol == MathMax([i \in S |-> stars[i][2]])
           halfSize == n \div 2
       IN [anyStarOnTopEdge |-> \E i \in S : stars[i][1] = 0,
           anyStarOnBottomEdge |-> \E i \in S : stars[i][1] = n - 1,
           anyStarOnLeftEdge |-> \E i \in S : stars[i][2] = 0,
           anyStarOnRightEdge |-> \E i \in S : stars[i][2] = n - 1,
           allStarsInLeftHalf |-> \A i \in S : stars[i][2] < halfSize,
           allStarsInRightHalf |-> \A i \in S : stars[i][2] >= halfSize,
           allStarsInTopHalf |-> \A i \in S : stars[i][1] < halfSize,
           allStarsInBottomHalf |-> \A i \in S : stars[i][1] >= halfSize,
           min_row_is_0 |-> minRow = 0,
           max_row_is_board_size_minus_1 |-> maxRow = n - 1,
           min_col_is_0 |-> minCol = 0,
           max_col_is_board_size_minus_1 |-> maxCol = n - 1,
           has_empty_on_row0 |-> \E i \in E : empties[i][1] = 0,
           has_empty_on_row_board_size_minus_1 |-> \E i \in E : empties[i][1] = n - 1,
           has_empty_on_col0 |-> \E i \in E : empties[i][2] = 0,
           has_empty_on_col_board_size_minus_1 |-> \E i \in E : empties[i][2] = n - 1,
           has_empty_in_top_left_3x3 |-> hasEmptyInRegion(empties, 0, 2, 0, 2),
           has_empty_in_top_right_3x3 |->
             hasEmptyInRegion(empties, 0, 2, n - 3, n - 1),
           has_empty_in_bottom_left_3x3 |->
             hasEmptyInRegion(empties, n - 3, n - 1, 0, 2),
           has_empty_in_bottom_right_3x3 |->
             hasEmptyInRegion(empties, n - 3, n - 1, n - 3, n - 1)]

getFeatureNames ==
  << "anyStarOnTopEdge", "anyStarOnBottomEdge", "anyStarOnLeftEdge",
     "anyStarOnRightEdge", "allStarsInLeftHalf", "allStarsInRightHalf",
     "allStarsInTopHalf", "allStarsInBottomHalf", "min_row_is_0",
     "max_row_is_board_size_minus_1", "min_col_is_0",
     "max_col_is_board_size_minus_1", "has_empty_on_row0",
     "has_empty_on_row_board_size_minus_1", "has_empty_on_col0",
     "has_empty_on_col_board_size_minus_1", "has_empty_in_top_left_3x3",
     "has_empty_in_top_right_3x3", "has_empty_in_bottom_left_3x3",
     "has_empty_in_bottom_right_3x3" >>

getFeatureValue(occurrence, featureName) == occurrence.extra_features[featureName]

\* Step 1 for one pattern with at least one star
occurrenceOf(p, n) ==
  LET initialStars == toPoints(p.initial_stars)
      forcedEmpty == toPoints(p.forced_empty)
      canon == canonicalize(initialStars, forcedEmpty)
      occurrence == [abs_stars |-> initialStars, abs_forced_empty |-> forcedEmpty]
  IN [canonical_stars |-> canon.canonicalStars,
      canonical_forced_empty |-> canon.canonicalCells,
      abs_stars |-> initialStars,
      abs_forced_empty |-> forcedEmpty,
      compatible_solutions |-> p.compatible_solutions,
      extra_features |-> extractFeatures(occurrence, n)]

\* Step 1: the occurrences of the patterns that have stars
RECURSIVE occurrencesOver(_, _, _, _)
occurrencesOver(patterns, lo, hi, n) ==
  IF lo > hi THEN <<>>
  ELSE IF lo = hi
  THEN (IF Len(patterns[lo].initial_stars) = 0 THEN <<>>
        ELSE <<occurrenceOf(patterns[lo], n)>>)
  ELSE occurrencesOver(patterns, lo, (lo + hi) \div 2, n)
       \o occurrencesOver(patterns, (lo + hi) \div 2 + 1, hi, n)

occurrencesFrom(patterns, i, n) == occurrencesOver(patterns, i, Len(patterns), n)

\* Step 2 for one occurrence
groupStep(starGroups, occ) ==
  LET starKey == stringify(occ.canonical_stars)
      emptiesKey == stringify(occ.canonical_forced_empty)
      groups == IF MapHas(starGroups, starKey) THEN starGroups
                ELSE Append(starGroups, [key |-> starKey, value |-> <<>>])
      i == MapIndex(groups, starKey)
      em == groups[i].value
      em1 == IF MapHas(em, emptiesKey) THEN em
             ELSE Append(em, [key |-> emptiesKey, value |-> <<>>])
      j == MapIndex(em1, emptiesKey)
  IN [groups EXCEPT ![i].value = [em1 EXCEPT ![j].value = Append(@, occ)]]

\* Step 2 over occurrences[lo .. hi]: the first half of the range, then the
\* second half; the map left by the first half is complete before the second
\* half starts
RECURSIVE starGroupsOver(_, _, _, _)
starGroupsOver(occurrences, lo, hi, starGroups) ==
  IF lo > hi THEN starGroups
  ELSE IF lo = hi THEN groupStep(starGroups, occurrences[lo])
  ELSE LET firstHalf == starGroupsOver(occurrences, lo, (lo + hi) \div 2, starGroups)
       IN IF Len(firstHalf) = 0 THEN starGroupsOver(occurrences, (lo + hi) \div 2 + 1, hi, <<>>)
          ELSE starGroupsOver(occurrences, (lo + hi) \div 2 + 1, hi, firstHalf)

starGroupsFrom(occurrences, i, starGroups) ==
  starGroupsOver(occurrences, i, Len(occurrences), starGroups)

\* negOccs: the occurrences under every other empties key, in map order
RECURSIVE negOccsFrom(_, _, _)
negOccsFrom(emptiesMap, emptiesKey, j) ==
  IF j > Len(emptiesMap) THEN <<>>
  ELSE (IF emptiesMap[j].key # emptiesKey THEN emptiesMap[j].value ELSE <<>>)
       \o negOccsFrom(emptiesMap, emptiesKey, j + 1)

\* a positive test satisfied by one positive example
somePosHasFeature(posOccs, f) ==
  \E i \in 1 .. Len(posOccs) : getFeatureValue(posOccs[i], f)

\* posOccs.every(occ => getFeatureValue(occ, featureName))
allPosHaveFeature(posOccs, f) ==
  \A i \in 1 .. Len(posOccs) : getFeatureValue(posOccs[i], f)

\* !negOccs.some(occ => getFeatureValue(occ, featureName))
noNegHasFeature(negOccs, f) ==
  ~ \E i \in 1 .. Len(negOccs) : getFeatureValue(negOccs[i], f)

singleFeatureConstraints(posOccs, negOccs) ==
  SelectSeq(getFeatureNames,
            LAMBDA f : allPosHaveFeature(posOccs, f) /\ noNegHasFeature(negOccs, f))

\* the pairs (f1, f2) in the order of the loops "i < j"
featurePairs == generateCombinations(getFeatureNames, 2, 1, <<>>)

separatingPairs(posOccs, negOccs) ==
  SelectSeq(featurePairs, LAMBDA pr :
    /\ \A i \in 1 .. Len(posOccs) :
         getFeatureValue(posOccs[i], pr[1]) /\ getFeatureValue(posOccs[i], pr[2])
    /\ ~ \E i \in 1 .. Len(negOccs) :
         getFeatureValue(negOccs[i], pr[1]) /\ getFeatureValue(negOccs[i], pr[2]))

bestConstraints(posOccs, negOccs) ==
  LET single == singleFeatureConstraints(posOccs, negOccs)
  IN IF Len(single) = 0
     THEN LET pairs == separatingPairs(posOccs, negOccs)
          IN IF Len(pairs) = 0 THEN <<>> ELSE pairs[1]
     ELSE <<single[1]>>

\* the loop over distinctEmptiesPatterns of one star group, from index j
RECURSIVE constrainedRulesOf(_, _, _, _)
constrainedRulesOf(canonicalStars, emptiesMap, j, minOcc) ==
  IF j > Len(emptiesMap) THEN <<>>
  ELSE
    LET emptiesKey == emptiesMap[j].key
        posOccs == emptiesMap[j].value
        negOccs == negOccsFrom(emptiesMap, emptiesKey, 1)
        best == bestConstraints(posOccs, negOccs)
    IN (IF Len(posOccs) < minOcc THEN <<>>
        ELSE IF Len(negOccs) = 0 THEN <<>>
        ELSE IF Len(best) > 0
        THEN <<[canonical_stars |-> canonicalStars,
                canonical_forced_empty |-> parse(emptiesKey),
                constraint_features |-> best,
                occurrences |-> Len(posOccs)]>>
        ELSE <<>>)
       \o constrainedRulesOf(canonicalStars, emptiesMap, j + 1, minOcc)

\* Step 3, the unconstrained rules in the order they are pushed
RECURSIVE unconstrainedRulesFrom(_, _, _)
unconstrainedRulesFrom(starGroups, i, minOcc) ==
  IF i > Len(starGroups) THEN <<>>
  ELSE
    LET emptiesMap == starGroups[i].value
    IN (IF Len(emptiesMap) = 1 /\ Len(emptiesMap[1].value) >= minOcc
        THEN <<[canonical_stars |-> parse(starGroups[i].key),
                canonical_forced_empty |-> parse(emptiesMap[1].key),
                constraint_features |-> <<>>,
                occurrences |-> Len(emptiesMap[1].value)]>>
        ELSE <<>>)
       \o unconstrainedRulesFrom(starGroups, i + 1, minOcc)

\* Step 3, the constrained rules in the order they are pushed
RECURSIVE constrainedRulesFrom(_, _, _)
constrainedRulesFrom(starGroups, i, minOcc) ==
  IF i > Len(starGroups) THEN <<>>
  ELSE (IF Len(starGroups[i].value) = 1 THEN <<>>
        ELSE constrainedRulesOf(parse(starGroups[i].key), starGroups[i].value,
                                1, minOcc))
       \o constrainedRulesFrom(starGroups, i + 1, minOcc)

mineConstrainedEntanglements(out, minOcc) ==
  LET occurrences == occurrencesFrom(out.patterns, 1, out.board_size)
      starGroups == starGroupsFrom(occurrences, 1, <<>>)
  IN [kind |-> "constrained",
      board_size |-> out.board_size,
      initial_stars |-> out.initial_star_count,
      unconstrained_rules |-> sortRules(unconstrainedRulesFrom(starGroups, 1, minOcc)),
      constrained_rules |-> sortRules(constrainedRulesFrom(starGroups, 1, minOcc))]

\* ------------------------------------------------------------------------
\* The miners run on pattern lists
\* ------------------------------------------------------------------------
RECURSIVE Flatten(_, _)
Flatten(ss, i) == IF i > Len(ss) THEN <<>> ELSE ss[i] \o Flatten(ss, i + 1)

\* the cells patterns are drawn from: the top-left quadrant of the board
PatternCells ==
  SelectSeq(AllCells(MineBoard),
            LAMBDA c : c.row < MineBoard \div 2 /\ c.col < MineBoard \div 2)

\* a Pattern as analyzePattern returns it
PatternOf(stars, empties) ==
  [kind |-> "pattern",
   initial_stars |-> stars,
   compatible_solutions |-> 1,
   forced_empty |-> empties,
   forced_star |-> <<>>]

\* the forced_empty lists offered for one star set
ForcedEmptyLists(stars) ==
  Flatten([k \in 1 .. (MaxForcedEmpty + 1) |->
             generateCombinations(
               SelectSeq(PatternCells, LAMBDA c : c \notin SeqRange(stars)),
               k - 1, 1, <<>>)], 1)

\* the patterns with z initial stars, in generation order
PatternPool(z) ==
  LET starSets == generateCombinations(PatternCells, z, 1, <<>>)
  IN Flatten([i \in 1 .. Len(starSets) |->
                [j \in 1 .. Len(ForcedEmptyLists(starSets[i])) |->
                   PatternOf(starSets[i], ForcedEmptyLists(starSets[i])[j])]], 1)

\* the Outputs whose patterns all have z stars
Outputs(z) ==
  {[kind |-> "output", board_size |-> MineBoard, initial_star_count |-> z,
    patterns |-> ps] :
     ps \in UNION {SeqRange(generateCombinations(PatternPool(z), k, 1, <<>>)) :
                     k \in 0 .. MaxPatterns}}

MineInit ==
  /\ phase = "mine"
  /\ EnumIdle
  /\ AnaIdle
  /\ StageIdle
  /\ PoolIdle
  /\ RunIdle
  /\ CanonIdle
  /\ output \in UNION {Outputs(z) : z \in 0 .. MaxInitialStars}
  /\ minOccurrences \in 1 .. MaxMinOccurrences
  /\ pureEntanglements = None
  /\ constrainedEntanglements = None
  /\ tripleEntanglements = None
  /\ tripleEntanglementsFinal = None

\* const pureEntanglements = extractPureEntanglements(output, minOccurrences)
ExtractPure ==
  /\ phase = "mine"
  /\ pureEntanglements = None
  /\ pureEntanglements' = extractPureEntanglements(output, minOccurrences)
  /\ UNCHANGED <<poolVars, runVars, stageVars, phase, enumVars, anaVars, canonVars, output, minOccurrences,
                 constrainedEntanglements, tripleEntanglements,
          tripleEntanglementsFinal>>

\* const constrainedEntanglements = mineConstrainedEntanglements(output, ...)
MineConstrained ==
  /\ phase = "mine"
  /\ pureEntanglements # None
  /\ constrainedEntanglements = None
  /\ constrainedEntanglements' = mineConstrainedEntanglements(output, minOccurrences)
  /\ UNCHANGED <<poolVars, runVars, stageVars, phase, enumVars, anaVars, canonVars, output, minOccurrences,
                 pureEntanglements, tripleEntanglements,
                 tripleEntanglementsFinal>>

MineNext == ExtractPure \/ MineConstrained

SpecMine == MineInit /\ [][MineNext]_vars

\* ------------------------------------------------------------------------
\* Properties of the pure extractor and the constrained miner
\* ------------------------------------------------------------------------
\* the input patterns that have stars, by position
StarredPatterns == {i \in 1 .. Len(output.patterns) :
                      Len(output.patterns[i].initial_stars) > 0}

CanonOfPattern(i) ==
  canonicalize(toPoints(output.patterns[i].initial_stars),
               toPoints(output.patterns[i].forced_empty))

FeaturesOfPattern(i) ==
  extractFeatures([abs_stars |-> toPoints(output.patterns[i].initial_stars),
                   abs_forced_empty |-> toPoints(output.patterns[i].forced_empty)],
                  output.board_size)

C8_RulesSeparate ==
  constrainedEntanglements.kind = "constrained" =>
    \A rule \in SeqRange(constrainedEntanglements.constrained_rules) :
      \A i \in StarredPatterns :
        CanonOfPattern(i).canonicalStars = rule.canonical_stars =>
          IF CanonOfPattern(i).canonicalCells = rule.canonical_forced_empty
          THEN \A f \in SeqRange(rule.constraint_features) : FeaturesOfPattern(i)[f]
          ELSE \E f \in SeqRange(rule.constraint_features) : ~ FeaturesOfPattern(i)[f]

C8_Witness ==
  /\ constrainedEntanglements.kind = "constrained"
  /\ \E rule \in SeqRange(constrainedEntanglements.constrained_rules) :
       /\ rule.occurrences = 2
       /\ \E i \in StarredPatterns :
            /\ CanonOfPattern(i).canonicalStars = rule.canonical_stars
            /\ CanonOfPattern(i).canonicalCells # rule.canonical_forced_empty
  /\ \E rule \in SeqRange(constrainedEntanglements.constrained_rules) :
       Len(rule.constraint_features) = 2

\* ------------------------------------------------------------------------
\* mineTripleEntanglements
\* ------------------------------------------------------------------------
cornerBlockSize == 3

\* the coordinator's literal threshold "positiveCount < 2"
coordinatorMinOccurrences == 2

isSolutionCompatible(g, stars) ==
  \A i \in 1 .. Len(stars) : g[stars[i][1]][stars[i][2]] = 1

\* every ordered pair of distinct cells that do not touch, in loop order
enumerateAllStarPairs(n) ==
  Flatten([i \in 1 .. (n * n) |->
             SelectSeq([j \in 1 .. (n * n) |-> <<AllCells(n)[i], AllCells(n)[j]>>],
                       LAMBDA pr :
                         /\ pr[1] # pr[2]
                         /\ ~ (/\ Abs(pr[1].row - pr[2].row) <= 1
                               /\ Abs(pr[1].col - pr[2].col) <= 1))], 1)

\* extractFeatures of the triple miner
extractTripleFeatures(starsAbs, candidateAbs, n, compat) ==
  LET r == candidateAbs[1]
      c == candidateAbs[2]
      last == n - 1
      S == 1 .. Len(starsAbs)
      starsInRow == SelectSeq(starsAbs, LAMBDA s : s[1] = r)
      starsInCol == SelectSeq(starsAbs, LAMBDA s : s[2] = c)
      cols == [i \in 1 .. Len(starsInRow) |-> starsInRow[i][2]]
      rows == [i \in 1 .. Len(starsInCol) |-> starsInCol[i][1]]
      ring == MathMin(<<r, c, n - 1 - r, n - 1 - c>>)
      K == cornerBlockSize
      C == 1 .. Len(compat)
  IN [candidate_on_top_edge |-> r = 0,
      candidate_on_bottom_edge |-> r = last,
      candidate_on_left_edge |-> c = 0,
      candidate_on_right_edge |-> c = last,
      candidate_on_outer_ring |->
        (r = 1 \/ r = last - 1 \/ c = 1 \/ c = last - 1),
      some_star_on_top_edge |-> \E i \in S : starsAbs[i][1] = 0,
      some_star_on_bottom_edge |-> \E i \in S : starsAbs[i][1] = last,
      some_star_on_left_edge |-> \E i \in S : starsAbs[i][2] = 0,
      some_star_on_right_edge |-> \E i \in S : starsAbs[i][2] = last,
      candidate_in_same_row_as_any_star |-> \E i \in S : starsAbs[i][1] = r,
      candidate_in_same_column_as_any_star |-> \E i \in S : starsAbs[i][2] = c,
      candidate_between_stars_in_row |->
        IF Len(starsInRow) >= 2
        THEN c > MathMin(cols) /\ c < MathMax(cols) ELSE FALSE,
      candidate_between_stars_in_column |->
        IF Len(starsInCol) >= 2
        THEN r > MathMin(rows) /\ r < MathMax(rows) ELSE FALSE,
      candidate_row_needs_star |->
        IF Len(compat) > 0
        THEN \A i \in C : \E col \in Idx(n) :
               col # c /\ compat[i][r][col] = 1
        ELSE FALSE,
      candidate_column_needs_star |->
        IF Len(compat) > 0
        THEN \A i \in C : \E row \in Idx(n) :
               row # r /\ compat[i][row][c] = 1
        ELSE FALSE,
      ring_index |-> ring,
      candidate_in_ring_1 |-> ring = 1,
      candidate_in_top_left_KxK |-> (r < K /\ c < K),
      candidate_in_top_right_KxK |-> (r < K /\ c >= n - K),
      candidate_in_bottom_left_KxK |-> (r >= n - K /\ c < K),
      candidate_in_bottom_right_KxK |-> (r >= n - K /\ c >= n - K)]

\* Object.keys(features) filtered by typeof === 'boolean'
booleanFeatureKeys ==
  << "candidate_on_top_edge", "candidate_on_bottom_edge",
     "candidate_on_left_edge", "candidate_on_right_edge",
     "candidate_on_outer_ring", "some_star_on_top_edge",
     "some_star_on_bottom_edge", "some_star_on_left_edge",
     "some_star_on_right_edge", "candidate_in_same_row_as_any_star",
     "candidate_in_same_column_as_any_star", "candidate_between_stars_in_row",
     "candidate_between_stars_in_column", "candidate_row_needs_star",
     "candidate_column_needs_star", "candidate_in_ring_1",
     "candidate_in_top_left_KxK", "candidate_in_top_right_KxK",
     "candidate_in_bottom_left_KxK", "candidate_in_bottom_right_KxK" >>

\* the template string `${fname}=${value}` for fname = ring_index
ringIndexLabel(value) ==
  CASE value = 0 -> "ring_index=0"
    [] value = 1 -> "ring_index=1"
    [] value = 2 -> "ring_index=2"
    [] value = 3 -> "ring_index=3"
    [] OTHER -> "ring_index=4"

\* JSON.stringify({ canonicalStars, canonicalCandidate }) without the constant
\* field names: the stars, a comma, the candidate
tripleKey(ct) ==
  stringify(ct.canonicalStars) \o <<ChComma>> \o PointStr(ct.canonicalCandidate)

\* the body of the candidate loop for one cell that is not an initial star:
\* the bucket key and how the cell is classified
tripleEntry(starsAbs, cell, compatible, n) ==
  LET starsAtCell == Cardinality({i \in 1 .. Len(compatible) :
                                    compatible[i][cell[1]][cell[2]] = 1})
      emptyCount == Len(compatible) - starsAtCell
      ct == canonicalizeTriple(starsAbs, cell)
  IN [key |-> tripleKey(ct),
      canonicalStars |-> ct.canonicalStars,
      canonicalCandidate |-> ct.canonicalCandidate,
      class |-> IF starsAtCell = 0 THEN "forced"
                ELSE IF emptyCount = 0 THEN "forcedStar"
                ELSE "flexible",
      features |-> extractTripleFeatures(starsAbs, cell, n, compatible)]

\* the loops "for r ... for c ..." of one star pair, initial stars skipped
tripleEntriesOfPair(pair, grids, n) ==
  LET starsAbs == toPoints(pair)
      compatible == SelectSeq(grids, LAMBDA g : isSolutionCompatible(g, starsAbs))
      cells == SelectSeq(toPoints(AllCells(n)), LAMBDA c : c \notin SeqRange(starsAbs))
  IN [k \in 1 .. Len(cells) |-> tripleEntry(starsAbs, cells[k], compatible, n)]

\* the star pairs that pass "if (compatible.length === 0) continue"
pairsWithSolutions(pairs, grids) ==
  SelectSeq(pairs, LAMBDA pr :
    \E i \in 1 .. Len(grids) : isSolutionCompatible(grids[i], toPoints(pr)))

\* every cell visit of the loop over star pairs, in order
tripleEntries(pairs, grids, n) ==
  LET visited == pairsWithSolutions(pairs, grids)
  IN Flatten([i \in 1 .. Len(visited) |-> tripleEntriesOfPair(visited[i], grids, n)], 1)

\* the positions at which a key appears for the first time
firstAppearances(keyed) ==
  SelectSeq([i \in 1 .. Len(keyed) |-> i],
            LAMBDA i : \A j \in 1 .. (i - 1) : keyed[j].key # keyed[i].key)

\* the occurrences pushed to the bucket of one key: forced-empty and flexible
\* cells, forced stars skipped
occurrencesOfKey(entries, key) ==
  LET pushed == SelectSeq(entries, LAMBDA e : e.key = key /\ e.class # "forcedStar")
  IN [k \in 1 .. Len(pushed) |->
        [canonicalStars |-> pushed[k].canonicalStars,
         canonicalCandidate |-> pushed[k].canonicalCandidate,
         forced |-> (pushed[k].class = "forced"),
         features |-> pushed[k].features]]

\* the buckets Map after the loop over the star pairs: one bucket per key in
\* the order the keys were first set
tripleBuckets(pairs, grids, n) ==
  LET entries == tripleEntries(pairs, grids, n)
      firsts == firstAppearances(entries)
  IN [b \in 1 .. Len(firsts) |->
        [key |-> entries[firsts[b]].key,
         value |-> [canonicalStars |-> entries[firsts[b]].canonicalStars,
                    canonicalCandidate |-> entries[firsts[b]].canonicalCandidate,
                    occurrences |-> occurrencesOfKey(entries, entries[firsts[b]].key)]]]

\* pos.every(o => o.features[fname] === true)
allPosTrue(pos, fname) == \A i \in 1 .. Len(pos) : pos[i].features[fname] = TRUE

\* neg.some(o => o.features[fname] !== true)
someNegNotTrue(neg, fname) ==
  \E i \in 1 .. Len(neg) : neg[i].features[fname] # TRUE

chosenBoolean(pos, neg) ==
  SelectSeq(booleanFeatureKeys,
            LAMBDA fname : allPosTrue(pos, fname) /\ someNegNotTrue(neg, fname))

\* the loop over numericFeatureKeys, whose only member is ring_index
chosenNumeric(pos, neg) ==
  LET value == pos[1].features.ring_index
      allPosSame == \A i \in 1 .. Len(pos) : pos[i].features.ring_index = value
      someNegDifferent == \E i \in 1 .. Len(neg) : neg[i].features.ring_index # value
  IN IF allPosSame /\ someNegDifferent THEN <<ringIndexLabel(value)>> ELSE <<>>

\* a rule is pushed even when no feature was chosen
ruleOfBucketUnseparated(bucket, minOcc) ==
  LET pos == SelectSeq(bucket.occurrences, LAMBDA o : o.forced)
      neg == SelectSeq(bucket.occurrences, LAMBDA o : ~ o.forced)
      chosen == chosenBoolean(pos, neg) \o chosenNumeric(pos, neg)
      rule(features) == [canonical_stars |-> bucket.canonicalStars,
                         canonical_candidate |-> bucket.canonicalCandidate,
                         constraint_features |-> features,
                         forced |-> TRUE,
                         occurrences |-> Len(pos)]
  IN IF Len(pos) < minOcc THEN [list |-> "skipped"]
     ELSE IF Len(neg) = 0 THEN [list |-> "unconstrained", rule |-> rule(<<>>)]
     ELSE IF Len(pos) = 0 THEN [list |-> "skipped"]
     ELSE [list |-> "constrained", rule |-> rule(chosen)]

\* the body of "for (const bucket of buckets.values())": the list the bucket's
\* rule is pushed to, and the rule
ruleOfBucket(bucket, minOcc) ==
  LET pos == SelectSeq(bucket.occurrences, LAMBDA o : o.forced)
      neg == SelectSeq(bucket.occurrences, LAMBDA o : ~ o.forced)
      chosen == chosenBoolean(pos, neg) \o chosenNumeric(pos, neg)
      rule(features) == [canonical_stars |-> bucket.canonicalStars,
                         canonical_candidate |-> bucket.canonicalCandidate,
                         constraint_features |-> features,
                         forced |-> TRUE,
                         occurrences |-> Len(pos)]
  IN IF Len(pos) < minOcc THEN [list |-> "skipped"]
     ELSE IF Len(neg) = 0 THEN [list |-> "unconstrained", rule |-> rule(<<>>)]
     ELSE IF Len(pos) = 0 THEN [list |-> "skipped"]
     ELSE IF Len(chosen) > 0 THEN [list |-> "constrained", rule |-> rule(chosen)]
     ELSE [list |-> "skipped"]

\* the rules pushed to one of the two lists, in bucket order
tripleRulesOf(buckets, minOcc, list) ==
  LET built == [k \in 1 .. Len(buckets) |-> ruleOfBucket(buckets[k].value, minOcc)]
      pushed == SelectSeq(built, LAMBDA b : b.list = list)
  IN [k \in 1 .. Len(pushed) |-> pushed[k].rule]

\* sortRule: the stringified stars, then the stringified candidate
sortRule(a, b) ==
  IF localeCompare(stringify(a.canonical_stars), stringify(b.canonical_stars)) # 0
  THEN localeCompare(stringify(a.canonical_stars), stringify(b.canonical_stars))
  ELSE localeCompare(PointStr(a.canonical_candidate), PointStr(b.canonical_candidate))

RECURSIVE insertTripleRule(_, _)
insertTripleRule(sorted, x) ==
  IF Len(sorted) = 0 THEN <<x>>
  ELSE IF sortRule(x, sorted[1]) < 0 THEN <<x>> \o sorted
  ELSE <<sorted[1]>> \o insertTripleRule(Tail(sorted), x)

RECURSIVE sortTripleRulesFrom(_, _, _)
sortTripleRulesFrom(rules, i, acc) ==
  IF i > Len(rules) THEN acc
  ELSE LET inserted == insertTripleRule(acc, rules[i])
       IN IF Len(inserted) = 0 THEN sortTripleRulesFrom(rules, i + 1, <<>>)
          ELSE sortTripleRulesFrom(rules, i + 1, inserted)

sortTripleRules(rules) == sortTripleRulesFrom(rules, 1, <<>>)

\* the TripleOutput built from a bucket map
tripleOutputOf(buckets, n, z, minOcc) ==
  [kind |-> "tripleOutput",
   board_size |-> n,
   initial_stars |-> z,
   unconstrained_rules |->
     sortTripleRules(tripleRulesOf(buckets, minOcc, "unconstrained")),
   constrained_rules |->
     sortTripleRules(tripleRulesOf(buckets, minOcc, "constrained"))]

mineTripleEntanglements(out, sols, minOcc) ==
  tripleOutputOf(
    tripleBuckets(enumerateAllStarPairs(out.board_size), sols, out.board_size),
    out.board_size, out.initial_star_count, minOcc)

\* ------------------------------------------------------------------------
\* The coordinator's multithreaded triple stage
\* ------------------------------------------------------------------------
\* Math.ceil(a / b)
CeilDiv(a, b) == (a + b - 1) \div b

\* worker i of numWorkers: the buckets of its slice of allStarPairs
workerBuckets(i, numWorkers, allStarPairs, sols, n) ==
  LET pairsPerWorker == CeilDiv(Len(allStarPairs), numWorkers)
      startIdx == i * pairsPerWorker
      endIdx == IF startIdx + pairsPerWorker < Len(allStarPairs)
                THEN startIdx + pairsPerWorker ELSE Len(allStarPairs)
      workerPairs == IF startIdx >= endIdx THEN <<>>
                     ELSE SubSeq(allStarPairs, startIdx + 1, endIdx)
  IN tripleBuckets(workerPairs, sols, n)

\* mergedBuckets: one bucket per key in the order the keys first arrive, the
\* occurrences of the workers' buckets of that key appended in worker order
mergeBuckets(tripleWorkerResults) ==
  LET all == Flatten(tripleWorkerResults, 1)
      firsts == firstAppearances(all)
      sameKey(key) == SelectSeq(all, LAMBDA b : b.key = key)
  IN [b \in 1 .. Len(firsts) |->
        [key |-> all[firsts[b]].key,
         value |-> [canonicalStars |-> all[firsts[b]].value.canonicalStars,
                    canonicalCandidate |-> all[firsts[b]].value.canonicalCandidate,
                    occurrences |->
                      Flatten([j \in 1 .. Len(sameKey(all[firsts[b]].key)) |->
                                 sameKey(all[firsts[b]].key)[j].value.occurrences], 1)]]]

\* tripleEntanglementsFinal, built when the last worker is done
tripleStage(numCpus, sols, n, z) ==
  LET allStarPairs == enumerateAllStarPairs(n)
      tripleNumWorkers == IF numCpus < Len(allStarPairs) THEN numCpus
                          ELSE Len(allStarPairs)
  IN tripleOutputOf(
       mergeBuckets([w \in 1 .. tripleNumWorkers |->
                       workerBuckets(w - 1, tripleNumWorkers, allStarPairs, sols, n)]),
       n, z, coordinatorMinOccurrences)

\* ------------------------------------------------------------------------
\* The triple miner run on solution lists
\* ------------------------------------------------------------------------
\* a grid from the coordinate form of a solution
gridOf(coords, n) ==
  [r \in Idx(n) |-> [c \in Idx(n) |-> IF <<r, c>> \in coords THEN 1 ELSE 0]]

\* solutions offered to the miner, in coordinate form: the single mock grid of
\* the unit tests, a 4x4 one-star solution, and three further mock grids
SolutionPool ==
  << {<<0, 0>>, <<2, 2>>},
     {<<0, 1>>, <<1, 3>>, <<2, 0>>, <<3, 2>>},
     {<<0, 0>>, <<0, 2>>},
     {<<0, 0>>, <<1, 1>>, <<2, 0>>, <<3, 1>>},
     {<<0, 0>>, <<1, 1>>, <<1, 2>>, <<2, 0>>, <<2, 3>>, <<3, 1>>} >>

SolutionLists ==
  UNION {SeqRange(generateCombinations(
                    [i \in 1 .. Len(SolutionPool) |-> gridOf(SolutionPool[i], MineBoard)],
                    k, 1, <<>>)) : k \in 0 .. MaxSolutions}

\* the single pattern of the unit tests' Output; the triple miner reads only
\* board_size and initial_star_count of the Output
TestPattern == PatternOf(<<Cell(0, 0), Cell(2, 2)>>, <<Cell(0, 1)>>)

TripleInit ==
  /\ phase = "triple"
  /\ boardSize = MineBoard
  /\ starsPerRow = 1
  /\ grid = EmptyGrid(MineBoard)
  /\ stack = <<>>
  /\ solutions \in SolutionLists
  /\ AnaIdle
  /\ StageIdle
  /\ PoolIdle
  /\ RunIdle
  /\ CanonIdle
  /\ output = [kind |-> "output", board_size |-> MineBoard,
               initial_star_count |-> 2, patterns |-> <<TestPattern>>]
  /\ minOccurrences \in 1 .. MaxMinOccurrences
  /\ pureEntanglements = None
  /\ constrainedEntanglements = None
  /\ tripleEntanglements = None
  /\ tripleEntanglementsFinal = None

\* const tripleEntanglements = mineTripleEntanglements(output, solutions, ...)
MineTriple ==
  /\ phase = "triple"
  /\ tripleEntanglements = None
  /\ tripleEntanglements' = mineTripleEntanglements(output, solutions, minOccurrences)
  /\ UNCHANGED <<poolVars, runVars, stageVars, phase, enumVars, anaVars, canonVars, output, minOccurrences,
                 pureEntanglements, constrainedEntanglements,
                 tripleEntanglementsFinal>>

\* Step 6 of the coordinator on numCpus workers
TripleStage ==
  /\ phase = "triple"
  /\ tripleEntanglements # None
  /\ tripleEntanglementsFinal = None
  /\ \E numCpus \in 1 .. MaxCpus :
       tripleEntanglementsFinal' =
         tripleStage(numCpus, solutions, output.board_size, output.initial_star_count)
  /\ UNCHANGED <<poolVars, runVars, stageVars, phase, enumVars, anaVars, canonVars, output, minOccurrences,
                 pureEntanglements, constrainedEntanglements, tripleEntanglements>>

TripleNext == MineTriple \/ TripleStage

SpecTriple == TripleInit /\ [][TripleNext]_vars

\* mock grids with few stars, in coordinate form: the grid of the unit tests,
\* two stars with a free cell between them, the same pair one row further
\* down, and that pair with two more stars
SmallSolutionPool ==
  << {<<0, 0>>, <<2, 2>>},
     {<<1, 0>>, <<1, 2>>},
     {<<2, 0>>, <<2, 2>>},
     {<<2, 0>>, <<2, 2>>, <<2, 1>>, <<0, 1>>} >>

SmallSolutionLists ==
  UNION {SeqRange(generateCombinations(
                    [i \in 1 .. Len(SmallSolutionPool) |->
                       gridOf(SmallSolutionPool[i], TripleBoard)],
                    k, 1, <<>>)) : k \in 0 .. MaxSolutions}

\* the triple miner handed an Output of any initial_star_count
TripleSmallInit ==
  /\ phase = "triple"
  /\ boardSize = TripleBoard
  /\ starsPerRow = 1
  /\ grid = EmptyGrid(TripleBoard)
  /\ stack = <<>>
  /\ solutions \in SmallSolutionLists
  /\ AnaIdle
  /\ StageIdle
  /\ PoolIdle
  /\ RunIdle
  /\ CanonIdle
  /\ \E z \in 1 .. MaxEntangledStars :
       output = [kind |-> "output", board_size |-> TripleBoard,
                 initial_star_count |-> z, patterns |-> <<>>]
  /\ minOccurrences \in 1 .. MaxMinOccurrences
  /\ pureEntanglements = None
  /\ constrainedEntanglements = None
  /\ tripleEntanglements = None
  /\ tripleEntanglementsFinal = None

SpecTripleSmall == TripleSmallInit /\ [][TripleNext]_vars

\* ------------------------------------------------------------------------
\* Properties of the triple miner
\* ------------------------------------------------------------------------
\* the (star pair, candidate) placements the miner classifies
TriplePlacements ==
  {pl \in [stars : SeqRange(enumerateAllStarPairs(output.board_size)),
           cell : SeqRange(AllCells(output.board_size))] :
     /\ pl.cell \notin SeqRange(pl.stars)
     /\ \E i \in 1 .. Len(solutions) :
          isSolutionCompatible(solutions[i], toPoints(pl.stars))}

CompatibleWith(stars) ==
  SelectSeq(solutions, LAMBDA g : isSolutionCompatible(g, toPoints(stars)))

\* the candidate is empty in every compatible solution
IsForcedEmpty(pl) ==
  \A i \in 1 .. Len(CompatibleWith(pl.stars)) :
    CompatibleWith(pl.stars)[i][pl.cell.row][pl.cell.col] = 0

\* the candidate is a star in some compatible solutions and empty in others
IsFlexible(pl) ==
  /\ \E i \in 1 .. Len(CompatibleWith(pl.stars)) :
       CompatibleWith(pl.stars)[i][pl.cell.row][pl.cell.col] = 0
  /\ \E i \in 1 .. Len(CompatibleWith(pl.stars)) :
       CompatibleWith(pl.stars)[i][pl.cell.row][pl.cell.col] = 1

FeaturesOfPlacement(pl) ==
  extractTripleFeatures(toPoints(pl.stars), <<pl.cell.row, pl.cell.col>>,
                        output.board_size, CompatibleWith(pl.stars))

\* a listed constraint feature is true of the placement
Satisfies(pl, f) ==
  IF f \in SeqRange(booleanFeatureKeys) THEN FeaturesOfPlacement(pl)[f]
  ELSE f = ringIndexLabel(FeaturesOfPlacement(pl).ring_index)

InGroupOf(pl, rule) ==
  LET ct == canonicalizeTriple(toPoints(pl.stars), <<pl.cell.row, pl.cell.col>>)
  IN /\ ct.canonicalStars = rule.canonical_stars
     /\ ct.canonicalCandidate = rule.canonical_candidate

RulesSeparate(rules) ==
  \A rule \in SeqRange(rules) :
    \A pl \in TriplePlacements :
      InGroupOf(pl, rule) =>
        /\ IsForcedEmpty(pl) =>
             \A f \in SeqRange(rule.constraint_features) : Satisfies(pl, f)
        /\ IsFlexible(pl) =>
             \E f \in SeqRange(rule.constraint_features) : ~ Satisfies(pl, f)

\* C9: for every constrained triple rule, of the miner and of the coordinator,
\* every forced occurrence of its group satisfies all listed features and
\* every flexible occurrence of the group fails at least one of them
C9_TripleRulesSeparate ==
  /\ tripleEntanglements.kind = "tripleOutput" =>
       RulesSeparate(tripleEntanglements.constrained_rules)
  /\ tripleEntanglementsFinal.kind = "tripleOutput" =>
       RulesSeparate(tripleEntanglementsFinal.constrained_rules)

\* C15: every template and rule of the three miners has at least
\* minOccurrences occurrences, so a single input pattern with
\* minOccurrences = 2 yields empty template and rule lists
C15_MinOccurrencesFilter ==
  /\ pureEntanglements.kind = "pure" =>
       /\ \A t \in SeqRange(pureEntanglements.pure_entanglement_templates) :
            t.occurrences >= minOccurrences
       /\ (Len(output.patterns) = 1 /\ minOccurrences = 2) =>
            pureEntanglements.pure_entanglement_templates = <<>>
  /\ constrainedEntanglements.kind = "constrained" =>
       /\ \A rule \in SeqRange(constrainedEntanglements.unconstrained_rules)
                        \cup SeqRange(constrainedEntanglements.constrained_rules) :
            rule.occurrences >= minOccurrences
       /\ (Len(output.patterns) = 1 /\ minOccurrences = 2) =>
            /\ constrainedEntanglements.unconstrained_rules = <<>>
            /\ constrainedEntanglements.constrained_rules = <<>>
  /\ tripleEntanglements.kind = "tripleOutput" =>
       /\ \A rule \in SeqRange(tripleEntanglements.unconstrained_rules)
                        \cup SeqRange(tripleEntanglements.constrained_rules) :
            rule.occurrences >= minOccurrences
       /\ (Len(output.patterns) = 1 /\ minOccurrences = 2) =>
            /\ tripleEntanglements.unconstrained_rules = <<>>
            /\ tripleEntanglements.constrained_rules = <<>>

TripleRules(out) ==
  SeqRange(out.unconstrained_rules) \cup SeqRange(out.constrained_rules)

\* C22: the triple miner enumerates the star tuples of size
\* Z = output.initial_star_count: it reports initial_stars = Z and every rule
\* it emits has canonical_stars of length Z
C22_StarTuplesOfSizeZ ==
  tripleEntanglements.kind = "tripleOutput" =>
    /\ tripleEntanglements.initial_stars = output.initial_star_count
    /\ \A rule \in TripleRules(tripleEntanglements) :
         Len(rule.canonical_stars) = tripleEntanglements.initial_stars

\* the group of a placement: its canonical stars and canonical candidate
GroupOf(pl) ==
  LET ct == canonicalizeTriple(toPoints(pl.stars), <<pl.cell.row, pl.cell.col>>)
  IN [canonical_stars |-> ct.canonicalStars, canonical_candidate |-> ct.canonicalCandidate]

\* every classified placement with its group and its class
ClassifiedPlacements ==
  {[group |-> GroupOf(pl), forced |-> IsForcedEmpty(pl), flexible |-> IsFlexible(pl),
    stars |-> pl.stars, cell |-> pl.cell] : pl \in TriplePlacements}

RulesOfGroup(rules, group) ==
  {k \in 1 .. Len(rules) :
     /\ rules[k].canonical_stars = group.canonical_stars
     /\ rules[k].canonical_candidate = group.canonical_candidate}

\* the three cases of a group, for a given classification of the placements
GroupCases(classified, out, minOcc) ==
  \A group \in {o.group : o \in classified} :
    LET forcedOccs == {o \in classified : o.group = group /\ o.forced}
        flexibleOccs == {o \in classified : o.group = group /\ o.flexible}
        unconstrained == RulesOfGroup(out.unconstrained_rules, group)
        constrained == RulesOfGroup(out.constrained_rules, group)
    IN /\ (unconstrained = {} \/ constrained = {})
       /\ Cardinality(forcedOccs) >= minOcc =>
            IF flexibleOccs = {}
            THEN Cardinality(unconstrained) = 1 /\ constrained = {}
            ELSE /\ unconstrained = {}
                 /\ Cardinality(constrained) <= 1
                 /\ \A k \in constrained :
                      Len(out.constrained_rules[k].constraint_features) > 0

\* C26: in the triple miner a group with at least minOccurrences forced
\* occurrences and no flexible one yields exactly one unconstrained rule; with
\* a flexible occurrence it yields one constrained rule with a non-empty
\* feature list or no rule; no group is in both lists
C26_GroupRuleCases ==
  tripleEntanglements.kind = "tripleOutput" =>
    GroupCases(ClassifiedPlacements, tripleEntanglements, minOccurrences)

\* a mining run with an unconstrained rule and with a constrained rule whose
\* group has enough forced occurrences and a flexible one
C26_Witness ==
  /\ tripleEntanglements.kind = "tripleOutput"
  /\ Len(tripleEntanglements.unconstrained_rules) > 0
  /\ Len(tripleEntanglements.constrained_rules) > 0
  /\ LET classified == ClassifiedPlacements
         group == [canonical_stars |->
                     tripleEntanglements.constrained_rules[1].canonical_stars,
                   canonical_candidate |->
                     tripleEntanglements.constrained_rules[1].canonical_candidate]
     IN /\ Cardinality({o \in classified : o.group = group /\ o.forced})
             >= minOccurrences
        /\ \E o \in classified : o.group = group /\ o.flexible
        /\ Len(tripleEntanglements.constrained_rules[1].constraint_features) > 0

\* the distinct forced placements of a rule's group: two star cells, taken as
\* a set, and the candidate
ForcedPlacementsOf(classified, rule) ==
  {[stars |-> SeqRange(o.stars), cell |-> o.cell] :
     o \in {q \in classified :
              /\ q.forced
              /\ q.group.canonical_stars = rule.canonical_stars
              /\ q.group.canonical_candidate = rule.canonical_candidate}}

\* C27: every placement, an unordered pair of star cells and a candidate,
\* contributes one occurrence: a rule's occurrences is the number of distinct
\* forced placements of its group, and a forced triple realized by a single
\* placement yields no rule when minOccurrences = 2
C27_OnePlacementOneOccurrence ==
  tripleEntanglements.kind = "tripleOutput" =>
    LET classified == ClassifiedPlacements
    IN \A rule \in TripleRules(tripleEntanglements) :
         /\ rule.occurrences = Cardinality(ForcedPlacementsOf(classified, rule))
         /\ minOccurrences = 2 =>
              Cardinality(ForcedPlacementsOf(classified, rule)) >= 2

\* ------------------------------------------------------------------------
\* Steps 4 and 5 of the coordinator: pure and constrained mining on workers
\* ------------------------------------------------------------------------
\* patterns handed to one pure or constrained worker: Math.ceil(length / 100)
patternsPerMiningWorker == 100

\* the minOccurrences the coordinator passes in workerData
workerMinOccurrences == 2

ChBar == 124

Min2(a, b) == IF a < b THEN a ELSE b

\* patterns.slice(startIdx, endIdx) of worker workerId
workerPatterns(patterns, workerId, totalWorkers) ==
  LET patternsPerWorker == CeilDiv(Len(patterns), totalWorkers)
      startIdx == workerId * patternsPerWorker
      endIdx == Min2(startIdx + patternsPerWorker, Len(patterns))
  IN IF startIdx >= endIdx THEN <<>> ELSE SubSeq(patterns, startIdx + 1, endIdx)

\* the Output a worker builds for its slice
workerOutput(out, workerId, totalWorkers) ==
  [kind |-> "output", board_size |-> out.board_size,
   initial_star_count |-> out.initial_star_count,
   patterns |-> workerPatterns(out.patterns, workerId, totalWorkers)]

\* the result the pure worker posts with its 'done' message
pureWorkerResult(out, workerId, totalWorkers) ==
  extractPureEntanglements(workerOutput(out, workerId, totalWorkers),
                           workerMinOccurrences)

\* the result the constrained worker posts with its 'done' message
constrainedWorkerResult(out, workerId, totalWorkers) ==
  mineConstrainedEntanglements(workerOutput(out, workerId, totalWorkers),
                               workerMinOccurrences)

\* JSON.stringify(canonical_stars) + '|' + JSON.stringify(canonical_forced_empty)
mergeKey(rule) ==
  stringify(rule.canonical_stars) \o <<ChBar>> \o stringify(rule.canonical_forced_empty)

\* the key of mergedConstrained: mergeKey + '|' + the stringified feature list
constrainedMergeKey(rule) == <<mergeKey(rule), rule.constraint_features>>

\* the occurrences added up under one key, from rule i on
RECURSIVE sumOccurrences(_, _, _, _)
sumOccurrences(rules, keys, key, i) ==
  IF i > Len(rules) THEN 0
  ELSE (IF keys[i] = key THEN rules[i].occurrences ELSE 0)
       + sumOccurrences(rules, keys, key, i + 1)

\* the values of a merged Map, keys[i] being the key of rules[i]: one rule
\* per key in the order the keys first arrive, a copy of the first rule of
\* the key with the occurrences summed
mergeRules(rules, keys) ==
  LET keyed == [i \in 1 .. Len(rules) |-> [key |-> keys[i]]]
      firsts == firstAppearances(keyed)
  IN [b \in 1 .. Len(firsts) |->
        [rules[firsts[b]] EXCEPT
           !.occurrences = sumOccurrences(rules, keys, keys[firsts[b]], 1)]]

\* mergedTemplates and mergedUnconstrained
mergeByGeometry(rules) ==
  mergeRules(rules, [i \in 1 .. Len(rules) |-> mergeKey(rules[i])])

\* mergedConstrained
mergeByFeatures(rules) ==
  mergeRules(rules, [i \in 1 .. Len(rules) |-> constrainedMergeKey(rules[i])])

\* Step 4 on numCpus CPUs: the pureEntanglements object written to disk
pureStage(numCpus, out) ==
  LET pureNumWorkers ==
        Min2(numCpus, Max2(1, CeilDiv(Len(out.patterns), patternsPerMiningWorker)))
      pureWorkerResults ==
        [w \in 1 .. pureNumWorkers |-> pureWorkerResult(out, w - 1, pureNumWorkers)]
  IN [kind |-> "pure",
      board_size |-> out.board_size,
      initial_stars |-> out.initial_star_count,
      pure_entanglement_templates |->
        sortRules(mergeByGeometry(
          Flatten([w \in 1 .. pureNumWorkers |->
                     pureWorkerResults[w].pure_entanglement_templates], 1)))]

\* Step 5 on numCpus CPUs: the constrainedEntanglements object written to disk
constrainedStage(numCpus, out) ==
  LET constrainedNumWorkers ==
        Min2(numCpus, CeilDiv(Len(out.patterns), patternsPerMiningWorker))
      constrainedWorkerResults ==
        [w \in 1 .. constrainedNumWorkers |->
           constrainedWorkerResult(out, w - 1, constrainedNumWorkers)]
  IN [kind |-> "constrained",
      board_size |-> out.board_size,
      initial_stars |-> out.initial_star_count,
      unconstrained_rules |->
        sortRules(mergeByGeometry(
          Flatten([w \in 1 .. constrainedNumWorkers |->
                     constrainedWorkerResults[w].unconstrained_rules], 1))),
      constrained_rules |->
        sortRules(mergeByFeatures(
          Flatten([w \in 1 .. constrainedNumWorkers |->
                     constrainedWorkerResults[w].constrained_rules], 1)))]

\* ------------------------------------------------------------------------
\* The two stages run on pattern lists long enough for two workers
\* ------------------------------------------------------------------------
\* the pattern moved dc columns to the right
translated(p, dc) ==
  PatternOf([i \in 1 .. Len(p.initial_stars) |->
               Cell(p.initial_stars[i].row, p.initial_stars[i].col + dc)],
            [i \in 1 .. Len(p.forced_empty) |->
               Cell(p.forced_empty[i].row, p.forced_empty[i].col + dc)])

\* k occurrences of a pattern, each one column further right, the first one
\* at column offset first
block(p, first, k) == [i \in 1 .. k |-> translated(p, first + i - 1)]

\* the board the occurrences lie on
ShardBoard == MineBoard + 2 * ShardBlock

\* the patterns the blocks are made of
ShardPool == SubSeq(PatternPool(1), 1, MaxShardPool)

ShardOutputs ==
  {[kind |-> "output", board_size |-> ShardBoard, initial_star_count |-> 1,
    patterns |-> block(ShardPool[a], 0, ka) \o block(ShardPool[b], ka, ShardBlock)] :
     a \in 1 .. MaxShardPool, b \in 1 .. MaxShardPool, ka \in {1, ShardBlock}}

\* main after Step 3: output holds the analysed patterns
ShardInit ==
  /\ phase = "mine"
  /\ EnumIdle
  /\ AnaIdle
  /\ StageIdle
  /\ PoolIdle
  /\ RunIdle
  /\ CanonIdle
  /\ output \in ShardOutputs
  /\ minOccurrences = workerMinOccurrences
  /\ pureEntanglements = None
  /\ constrainedEntanglements = None
  /\ tripleEntanglements = None
  /\ tripleEntanglementsFinal = None

\* Step 4 of the coordinator on numCpus CPUs
PureStage ==
  /\ phase = "mine"
  /\ pureEntanglementsMerged = None
  /\ \E numCpus \in 1 .. MaxCpus :
       pureEntanglementsMerged' = pureStage(numCpus, output)
  /\ UNCHANGED <<poolVars, phase, enumVars, anaVars, canonVars, mineVars, runVars,
                 constrainedEntanglementsMerged>>

\* Step 5 of the coordinator on numCpus CPUs
ConstrainedStage ==
  /\ phase = "mine"
  /\ pureEntanglementsMerged # None
  /\ constrainedEntanglementsMerged = None
  /\ \E numCpus \in 1 .. MaxCpus :
       constrainedEntanglementsMerged' = constrainedStage(numCpus, output)
  /\ UNCHANGED <<poolVars, phase, enumVars, anaVars, canonVars, mineVars, runVars,
                 pureEntanglementsMerged>>

ShardNext == ExtractPure \/ MineConstrained \/ PureStage \/ ConstrainedStage

SpecShard == ShardInit /\ [][ShardNext]_vars

\* C19: the merged pure templates are those of extractPureEntanglements run
\* on the whole pattern list with minOccurrences 2, with the same occurrence
\* counts, and no two merged templates have the same canonical_stars
C19_PureMergeEqualsWhole ==
  (pureEntanglements # None /\ pureEntanglementsMerged # None) =>
    LET merged == pureEntanglementsMerged.pure_entanglement_templates
    IN /\ SeqRange(merged) = SeqRange(pureEntanglements.pure_entanglement_templates)
       /\ \A i \in 1 .. Len(merged) : \A j \in 1 .. Len(merged) :
            i # j => merged[i].canonical_stars # merged[j].canonical_stars

\* C20: every merged constrained rule separates the positive from the
\* negative occurrences of the whole pattern list, and the merged rule sets
\* are those of mineConstrainedEntanglements run on the whole list
C20_MergedRulesRecomputed ==
  (constrainedEntanglements # None /\ constrainedEntanglementsMerged # None) =>
    /\ \A rule \in SeqRange(constrainedEntanglementsMerged.constrained_rules) :
         \A i \in StarredPatterns :
           CanonOfPattern(i).canonicalStars = rule.canonical_stars =>
             IF CanonOfPattern(i).canonicalCells = rule.canonical_forced_empty
             THEN \A f \in SeqRange(rule.constraint_features) : FeaturesOfPattern(i)[f]
             ELSE \E f \in SeqRange(rule.constraint_features) : ~ FeaturesOfPattern(i)[f]
    /\ SeqRange(constrainedEntanglementsMerged.unconstrained_rules)
         = SeqRange(constrainedEntanglements.unconstrained_rules)
    /\ SeqRange(constrainedEntanglementsMerged.constrained_rules)
         = SeqRange(constrainedEntanglements.constrained_rules)

\* C18: when the enumerator finds no configuration the run ends with success
\* status and an Output with total_solutions = 0 and no patterns
C18_NoSolutionsIsSuccess ==
  (phase = "exited" /\ Len(solutions) = 0) =>
    /\ exitCode = Exit(0)
    /\ output # None
    /\ output.total_solutions = 0
    /\ output.patterns = <<>>

\* ------------------------------------------------------------------------
\* How the workers of a stage share a list of T items

\* Math.floor in place of Math.ceil
workerRangeFloor(total, workerId, totalWorkers) ==
  LET patternsPerWorker == total \div totalWorkers
      startIdx == workerId * patternsPerWorker
      endIdx == Min2(startIdx + patternsPerWorker, total)
  IN startIdx .. endIdx - 1

\* the values of i in "for (let i = startIdx; i < endIdx; i++)" of a worker
workerRange(total, workerId, totalWorkers) ==
  LET patternsPerWorker == CeilDiv(total, totalWorkers)
      startIdx == workerId * patternsPerWorker
      endIdx == Min2(startIdx + patternsPerWorker, total)
  IN startIdx .. endIdx - 1

Range(indices) == [kind |-> "range", indices |-> indices]

\* main has counted totalPatterns items and created
\* numWorkers = Math.min(numCpus, totalPatterns) workers; none has run
SliceInit ==
  /\ phase = "slice"
  /\ EnumIdle
  /\ AnaIdle
  /\ StageIdle
  /\ CanonIdle
  /\ MineIdle
  /\ gridSize = 0
  /\ cpuCount \in 1 .. MaxItems
  /\ totalPatterns \in 1 .. MaxItems
  /\ outputPatterns = 0
  /\ stage = "analysis"
  /\ workerStatus = <<>>
  /\ completedWorkers = 0
  /\ intervals = {}
  /\ exitCode = None
  /\ workerSlices = [i \in 1 .. Min2(cpuCount, totalPatterns) |-> None]
  /\ analysed = {}
  /\ pendingProgress = <<>>
  /\ workerProgress = <<>>
  /\ totalProcessed = 0
  /\ workerResults = <<>>
  /\ written = <<>>

\* worker i - 1 runs its loop from startIdx to endIdx
WorkerLoop(i) ==
  /\ phase = "slice"
  /\ i \in 1 .. Len(workerSlices)
  /\ workerSlices[i] = None
  /\ workerSlices' = [workerSlices EXCEPT
                        ![i] = Range(workerRange(totalPatterns, i - 1, Len(workerSlices)))]
  /\ UNCHANGED <<phase, enumVars, anaVars, canonVars, mineVars, stageVars, runVars,
                 analysed, pendingProgress, workerProgress, totalProcessed,
                 workerResults, written>>

SliceNext == \E i \in 1 .. MaxItems : WorkerLoop(i)

SpecSlice == SliceInit /\ [][SliceNext]_vars

AllLoopsRun == \A i \in 1 .. Len(workerSlices) : workerSlices[i] # None

\* C21: with T items and W workers, 1 <= W <= T, the index ranges of the
\* workers are pairwise disjoint and together they are exactly 0 .. T - 1
C21_SlicesPartition ==
  phase = "slice" =>
    /\ Len(workerSlices) >= 1
    /\ Len(workerSlices) <= totalPatterns
    /\ \A i \in 1 .. Len(workerSlices) : \A j \in 1 .. Len(workerSlices) :
         (i # j /\ workerSlices[i] # None /\ workerSlices[j] # None) =>
           workerSlices[i].indices \cap workerSlices[j].indices = {}
    /\ \A i \in 1 .. Len(workerSlices) :
         workerSlices[i] # None => workerSlices[i].indices \subseteq 0 .. totalPatterns - 1
    /\ AllLoopsRun =>
         UNION {workerSlices[i].indices : i \in 1 .. Len(workerSlices)}
           = 0 .. totalPatterns - 1

\* every worker has run, T is no multiple of the chunk and one worker got nothing
C21_Witness ==
  /\ phase = "slice"
  /\ AllLoopsRun
  /\ Len(workerSlices) > 1
  /\ totalPatterns % CeilDiv(totalPatterns, Len(workerSlices)) # 0
  /\ \E i \in 1 .. Len(workerSlices) : workerSlices[i].indices = {}

\* ------------------------------------------------------------------------
\* The coordinator (main of the command line tool) and its worker threads
\* ------------------------------------------------------------------------
\* the workers a stage creates: every one is running its script
Workers(k) == [i \in 1 .. k |-> "running"]

\* pattern counts of a run: a few patterns, or one more than a single mining
\* worker is given
PatternCounts == 0 .. MaxTotalPatterns \cup {patternsPerMiningWorker + 1}

\* boards on which the enumerator finds a configuration
RunBoards == {1, MineBoard}

\* which patterns analyzePattern has a result for: none, all, every other
\* one, and for short lists every subset
AnalysedSets(total) ==
  {{}, 0 .. total - 1, {i \in 0 .. total - 1 : i % 2 = 0}}
    \cup (IF total <= MaxTotalPatterns THEN SUBSET (0 .. total - 1) ELSE {})

\* the results array of analysis worker workerId when its loop has ended: the
\* patterns of its range analyzePattern returned a result for, in loop order
resultsOfWorker(total, workerId, totalWorkers, nonNull) ==
  SelectSeq([k \in 1 .. total |-> k - 1],
            LAMBDA i : i \in workerRange(total, workerId, totalWorkers) /\ i \in nonNull)

\* endIdx - startIdx of analysis worker workerId
rangeLength(total, workerId, totalWorkers) ==
  Cardinality(workerRange(total, workerId, totalWorkers))

\* the worker's lastReported: the processed count of its latest 'progress'
lastReported(i) ==
  IF Len(pendingProgress[i]) > 0
  THEN pendingProgress[i][Len(pendingProgress[i])]
  ELSE workerProgress[i]

\* workerResults in worker order, all but the last are flattened
allResultsButLast(results) == Flatten(SubSeq(results, 1, Len(results) - 1), 1)

\* const allResults = workerResults.flat()
allResults(results) == Flatten(results, 1)

\* main after Step 2: the analysis workers are created, progressInterval is set
RunInit ==
  /\ phase = "run"
  /\ EnumIdle
  /\ AnaIdle
  /\ StageIdle
  /\ CanonIdle
  /\ MineIdle
  /\ gridSize \in RunBoards
  /\ cpuCount \in 1 .. MaxCpus
  /\ totalPatterns \in PatternCounts
  /\ outputPatterns = 0
  /\ stage = "analysis"
  /\ workerStatus = Workers(Min2(cpuCount, totalPatterns))
  /\ completedWorkers = 0
  /\ intervals = {"progressInterval"}
  /\ exitCode = None
  /\ workerSlices = <<>>
  /\ analysed \in AnalysedSets(totalPatterns)
  /\ pendingProgress = [i \in 1 .. Min2(cpuCount, totalPatterns) |-> <<>>]
  /\ workerProgress = [i \in 1 .. Min2(cpuCount, totalPatterns) |-> 0]
  /\ totalProcessed = 0
  /\ workerResults = [i \in 1 .. Min2(cpuCount, totalPatterns) |-> <<>>]
  /\ written = <<>>

Running == phase = "run" /\ exitCode = None

\* an analysis worker reaches its next report: ten more patterns processed,
\* or the last one of its range
WorkerPostsProgress(i) ==
  /\ Running
  /\ stage = "analysis"
  /\ i \in 1 .. Len(workerStatus)
  /\ workerStatus[i] = "running"
  /\ lastReported(i) < rangeLength(totalPatterns, i - 1, Len(workerStatus))
  /\ pendingProgress' =
       [pendingProgress EXCEPT
          ![i] = Append(@, Min2(lastReported(i) + 10,
                                rangeLength(totalPatterns, i - 1, Len(workerStatus))))]
  /\ UNCHANGED <<phase, enumVars, anaVars, canonVars, mineVars, stageVars, runVars,
                 workerSlices, analysed, workerProgress, totalProcessed,
                 workerResults, written>>

\* a worker script runs to its end: parentPort.postMessage({type: 'done'})
WorkerPostsDone(i) ==
  /\ Running
  /\ i \in 1 .. Len(workerStatus)
  /\ workerStatus[i] = "running"
  /\ stage = "analysis" =>
       lastReported(i) = rangeLength(totalPatterns, i - 1, Len(workerStatus))
  /\ workerStatus' = [workerStatus EXCEPT ![i] = "donePosted"]
  /\ UNCHANGED <<poolVars, phase, enumVars, anaVars, canonVars, mineVars, stageVars,
                 gridSize, cpuCount, totalPatterns, outputPatterns, stage,
                 completedWorkers, intervals, exitCode>>

\* the pure worker throws inside its try block: the catch posts
\* {type: 'error'} and the script ends
WorkerCatches(i) ==
  /\ Running
  /\ stage = "pure"
  /\ i \in 1 .. Len(workerStatus)
  /\ workerStatus[i] = "running"
  /\ workerStatus' = [workerStatus EXCEPT ![i] = "errorPosted"]
  /\ UNCHANGED <<poolVars, phase, enumVars, anaVars, canonVars, mineVars, stageVars,
                 gridSize, cpuCount, totalPatterns, outputPatterns, stage,
                 completedWorkers, intervals, exitCode>>

\* a worker throws where nothing catches (in the pure worker: outside the try
\* block, while its imports load): the thread ends and the Worker object
\* emits 'error'
WorkerThrows(i) ==
  /\ Running
  /\ i \in 1 .. Len(workerStatus)
  /\ workerStatus[i] = "running"
  /\ workerStatus' = [workerStatus EXCEPT ![i] = "threw"]
  /\ UNCHANGED <<poolVars, phase, enumVars, anaVars, canonVars, mineVars, stageVars,
                 gridSize, cpuCount, totalPatterns, outputPatterns, stage,
                 completedWorkers, intervals, exitCode>>

\* Step 4 begins: output is written, the pure workers are created; with no
\* pattern in the output the process exits with status 0 right after
StartPure(n) ==
  /\ outputPatterns' = n
  /\ stage' = "pure"
  /\ workerStatus' =
       Workers(Min2(cpuCount, Max2(1, CeilDiv(n, patternsPerMiningWorker))))
  /\ completedWorkers' = 0
  /\ IF n = 0
     THEN /\ intervals' = intervals
          /\ exitCode' = Exit(0)
     ELSE /\ intervals' = intervals \cup {"pureProgressInterval"}
          /\ exitCode' = exitCode

\* Step 5 begins
StartConstrained ==
  /\ stage' = "constrained"
  /\ workerStatus' =
       Workers(Min2(cpuCount, CeilDiv(outputPatterns, patternsPerMiningWorker)))
  /\ completedWorkers' = 0
  /\ intervals' = (intervals \ {"pureProgressInterval"})
                    \cup {"constrainedProgressInterval"}
  /\ UNCHANGED <<outputPatterns, exitCode>>

\* Step 6 begins
StartTriple ==
  /\ stage' = "triple"
  /\ workerStatus' =
       Workers(Min2(cpuCount, Len(enumerateAllStarPairs(gridSize))))
  /\ completedWorkers' = 0
  /\ intervals' = (intervals \ {"constrainedProgressInterval"})
                    \cup {"tripleProgressInterval"}
  /\ UNCHANGED <<outputPatterns, exitCode>>

\* the triple output is written, the intervals are cleared, process.exit(0)
Finish(i) ==
  /\ workerStatus' = [workerStatus EXCEPT ![i] = "done"]
  /\ completedWorkers' = completedWorkers + 1
  /\ intervals' = intervals \ {"tripleProgressInterval", "progressInterval"}
  /\ exitCode' = Exit(0)
  /\ UNCHANGED <<outputPatterns, stage>>

\* worker.on('message') with message.type === 'done': the stage's counter is
\* incremented; on the last 'done' the stage's output is built and the next
\* stage is started
OnDone(i) ==
  /\ Running
  /\ i \in 1 .. Len(workerStatus)
  /\ workerStatus[i] = "donePosted"
  /\ stage = "analysis" => pendingProgress[i] = <<>>
  /\ LET received ==
           IF stage = "analysis"
           THEN [workerResults EXCEPT
                   ![i] = resultsOfWorker(totalPatterns, i - 1, Len(workerStatus), analysed)]
           ELSE workerResults
     IN /\ workerResults' = received
        /\ IF completedWorkers + 1 # Len(workerStatus)
           THEN /\ workerStatus' = [workerStatus EXCEPT ![i] = "done"]
                /\ completedWorkers' = completedWorkers + 1
                /\ UNCHANGED <<outputPatterns, stage, intervals, exitCode, written>>
           ELSE CASE stage = "analysis" ->
                       /\ written' = Append(written, allResults(received))
                       /\ StartPure(Len(allResults(received)))
                  [] stage = "pure" -> StartConstrained /\ UNCHANGED written
                  [] stage = "constrained" -> StartTriple /\ UNCHANGED written
                  [] OTHER -> Finish(i) /\ UNCHANGED written
  /\ UNCHANGED <<phase, enumVars, anaVars, canonVars, mineVars, stageVars,
                 gridSize, cpuCount, totalPatterns,
                 workerSlices, analysed, pendingProgress, workerProgress, totalProcessed>>

\* worker.on('message') with message.type === 'progress' of the analysis stage
OnProgress(i) ==
  /\ Running
  /\ i \in 1 .. Len(pendingProgress)
  /\ Len(pendingProgress[i]) > 0
  /\ totalProcessed' = totalProcessed + (pendingProgress[i][1] - workerProgress[i])
  /\ workerProgress' = [workerProgress EXCEPT ![i] = pendingProgress[i][1]]
  /\ pendingProgress' = [pendingProgress EXCEPT ![i] = Tail(@)]
  /\ UNCHANGED <<phase, enumVars, anaVars, canonVars, mineVars, stageVars, runVars,
                 workerSlices, analysed, workerResults, written>>

\* the pure stage's worker.on('message') with message.type === 'error'
OnErrorMessage(i) ==
  /\ Running
  /\ stage = "pure"
  /\ i \in 1 .. Len(workerStatus)
  /\ workerStatus[i] = "errorPosted"
  /\ intervals' = intervals \ {"pureProgressInterval"}
  /\ exitCode' = Exit(1)
  /\ UNCHANGED <<poolVars, phase, enumVars, anaVars, canonVars, mineVars, stageVars,
                 gridSize, cpuCount, totalPatterns, outputPatterns, stage,
                 workerStatus, completedWorkers>>

\* worker.on('error'): console.error; the pure stage also clears its interval
OnError(i) ==
  /\ Running
  /\ i \in 1 .. Len(workerStatus)
  /\ workerStatus[i] = "threw"
  /\ workerStatus' = [workerStatus EXCEPT ![i] = "failed"]
  /\ intervals' = IF stage = "pure" THEN intervals \ {"pureProgressInterval"}
                  ELSE intervals
  /\ UNCHANGED <<poolVars, phase, enumVars, anaVars, canonVars, mineVars, stageVars,
                 gridSize, cpuCount, totalPatterns, outputPatterns, stage,
                 completedWorkers, exitCode>>

\* a tick of progressInterval once completedWorkers === numWorkers of the
\* analysis stage: clearInterval(progressInterval)
ProgressTick ==
  /\ Running
  /\ "progressInterval" \in intervals
  /\ stage = "analysis" => completedWorkers = Len(workerStatus)
  /\ intervals' = intervals \ {"progressInterval"}
  /\ UNCHANGED <<poolVars, phase, enumVars, anaVars, canonVars, mineVars, stageVars,
                 gridSize, cpuCount, totalPatterns, outputPatterns, stage,
                 workerStatus, completedWorkers, exitCode>>

\* no interval is set, no worker runs and no event is pending: the event loop
\* is empty and the process ends with status 0
EventLoopEmpty ==
  /\ Running
  /\ intervals = {}
  /\ \A i \in 1 .. Len(workerStatus) : workerStatus[i] \in {"done", "failed"}
  /\ exitCode' = Exit(0)
  /\ UNCHANGED <<poolVars, phase, enumVars, anaVars, canonVars, mineVars, stageVars,
                 gridSize, cpuCount, totalPatterns, outputPatterns, stage,
                 workerStatus, completedWorkers, intervals>>

RunNext ==
  \/ \E i \in 1 .. MaxCpus : WorkerPostsProgress(i)
  \/ \E i \in 1 .. MaxCpus : WorkerPostsDone(i)
  \/ \E i \in 1 .. MaxCpus : OnProgress(i)
  \/ \E i \in 1 .. MaxCpus : WorkerCatches(i)
  \/ \E i \in 1 .. MaxCpus : WorkerThrows(i)
  \/ \E i \in 1 .. MaxCpus : OnDone(i)
  \/ \E i \in 1 .. MaxCpus : OnErrorMessage(i)
  \/ \E i \in 1 .. MaxCpus : OnError(i)
  \/ ProgressTick
  \/ EventLoopEmpty

SpecRun == RunInit /\ [][RunNext]_vars

\* every running worker ends one way or the other, the event loop delivers
\* every message and event, and the timers fire
RunFairness ==
  /\ \A i \in 1 .. MaxCpus :
       /\ WF_vars(WorkerPostsProgress(i) \/ WorkerPostsDone(i)
                     \/ WorkerCatches(i) \/ WorkerThrows(i))
       /\ WF_vars(OnProgress(i))
       /\ WF_vars(OnDone(i))
       /\ WF_vars(OnErrorMessage(i))
       /\ WF_vars(OnError(i))
  /\ WF_vars(ProgressTick)
  /\ WF_vars(EventLoopEmpty)

SpecRunFair == RunInit /\ [][RunNext]_vars /\ RunFairness

\* a worker of the running stage has thrown
SomeWorkerThrew ==
  \E i \in 1 .. Len(workerStatus) : workerStatus[i] \in {"threw", "errorPosted"}

ExitedWithFailure == exitCode # None /\ exitCode.code # 0

\* C17: whenever a worker thread throws, in whichever stage, the run
\* eventually terminates with a non-zero exit status
C17_FailurePropagates == SomeWorkerThrew ~> ExitedWithFailure

\* C28: a run whose pattern generation yields no pattern still writes the
\* main output, with an empty patterns list, and terminates
C28_NoPatternsStillWritten ==
  (phase = "run" /\ totalPatterns = 0) ~> (written = << <<>> >> /\ exitCode # None)

\* the result lists of the analysis workers, concatenated in worker order
ResultsInWorkerOrder ==
  Flatten([w \in 1 .. Len(workerResults) |->
             resultsOfWorker(totalPatterns, w - 1, Len(workerResults), analysed)], 1)

\* C29: whatever the order in which 'progress' and 'done' messages arrive,
\* the main output is written once, when the 'done' of every analysis worker
\* has been received, and its patterns are the workers' result lists
\* concatenated in worker order
C29_WrittenOnceInWorkerOrder ==
  [][written' # written =>
       /\ written = <<>>
       /\ stage = "analysis"
       /\ \E i \in 1 .. Len(workerStatus) :
            /\ workerStatus[i] = "donePosted"
            /\ \A j \in 1 .. Len(workerStatus) : j # i => workerStatus[j] = "done"
       /\ written' = <<ResultsInWorkerOrder>>]_vars

\* two workers with results each, all progress handled, the output written
C29_Witness ==
  /\ phase = "run"
  /\ Len(written) = 1
  /\ Len(workerResults) = 2
  /\ Len(workerResults[1]) > 0
  /\ Len(workerResults[2]) > 0
  /\ written[1] = workerResults[1] \o workerResults[2]
  /\ totalProcessed = totalPatterns

Spec == Init /\ [][Next]_vars

====
